---- MODULE Spec2Model ----
(***************************************************************************)
(* A model of mapperx-ts: the synchronous mapping engine (mapperx), its    *)
(* batch runner (mapperxBatch) and the asynchronous batch runner           *)
(* (mapperxBatchAsync over mapperxAsync).                                  *)
(*                                                                         *)
(* Strings that the code splits on "." (source paths, aliases, keys) are   *)
(* modelled as the sequence of their dot-free segments: "n.p" is           *)
(* <<"n","p">> and "a" is <<"a">>.  An object is the function from its own *)
(* keys to their values, so key presence and an undefined value differ.    *)
(***************************************************************************)
EXTENDS Integers, Sequences, FiniteSets, TLC

\* -------------------------------------------------------------------------
\* JavaScript values
\* -------------------------------------------------------------------------

Undef == [t |-> "undefined"]

Null == [t |-> "null"]

Prim(s) == [t |-> "prim", v |-> s]

Str(name) == [t |-> "string", v |-> name]

Num(s) == [t |-> "number", v |-> s]

Obj(f) == [t |-> "object", f |-> f]

EmptyObj == [k \in {} |-> Undef]

IsNullish(v) == v = Undef \/ v = Null

\* new Error(message)
Error(msg) == [t |-> "Error", message |-> <<msg>>]

\* the TypeError the runtime raises ("in" on a primitive, a property of null)
TypeError(msg) == [t |-> "TypeError", message |-> <<msg>>]

\* A string with no characters or undefined/null is falsy.
Truthy(v) == ~IsNullish(v) /\ v # Str(<<>>)

\* class MapperxError: the message combines field, source indicator and the
\* cause's message.
MapperxError(field, sourceField, cause, sourceValue) ==
    [t |-> "MapperxError",
     field |-> field,
     sourceField |-> sourceField,
     cause |-> cause,
     sourceValue |-> sourceValue,
     message |-> <<"Mapperx mapping error at", field,
                   IF Truthy(sourceField) THEN <<"from", sourceField.v>>
                                          ELSE <<"computed">>,
                   cause.message>>]

IsMapperxError(e) == e.t = "MapperxError"

\* -------------------------------------------------------------------------
\* Field specs
\* -------------------------------------------------------------------------

\* typeof spec, the own keys the spec has, and the values under them.
\* required: FALSE only when the spec says required: false; nullable: TRUE
\* only when the spec says nullable: true.
FieldSpec(kind, has, from, schema, validate, transform, computed, default, required, nullable) ==
    [kind |-> kind, has |-> has, from |-> from, schema |-> schema,
     validate |-> validate, transform |-> transform, computed |-> computed,
     default |-> default, required |-> required, nullable |-> nullable]

DirectAlias(name) ==
    FieldSpec("string", {}, name, <<>>, "none", "none", "none", Undef, TRUE, FALSE)

ObjectFieldSpec(from, validate, transform, default, required, nullable) ==
    FieldSpec("object",
              {"from"} \cup (IF validate # "none" THEN {"validate"} ELSE {})
                       \cup (IF transform # "none" THEN {"transform"} ELSE {})
                       \cup (IF default # Undef THEN {"default"} ELSE {}),
              from, <<>>, validate, transform, "none", default, required, nullable)

NestedFieldSpec(from, schema, default, required) ==
    FieldSpec("object",
              {"from", "schema"} \cup (IF default # Undef THEN {"default"} ELSE {}),
              from, schema, "none", "none", "none", default, required, FALSE)

ComputedFieldSpec(computed, default) ==
    FieldSpec("object",
              {"computed"} \cup (IF default # Undef THEN {"default"} ELSE {}),
              <<>>, <<>>, "none", "none", computed, default, TRUE, FALSE)

Entry(key, spec) == [key |-> key, spec |-> spec]

IsObjectValue(spec) == spec.kind = "object"

isNestedSpec(spec) ==
    /\ IsObjectValue(spec)
    /\ "schema" \in spec.has
    /\ "from" \in spec.has
    /\ "computed" \notin spec.has
    /\ "validate" \notin spec.has
    /\ "transform" \notin spec.has

\* isObjectSpec asking for from alone.
isObjectSpecAnyFrom(spec) ==
    /\ IsObjectValue(spec)
    /\ "from" \in spec.has

isObjectSpec(spec) ==
    /\ IsObjectValue(spec)
    /\ "from" \in spec.has
    /\ "schema" \notin spec.has
    /\ "computed" \notin spec.has

isComputedSpec(spec) ==
    /\ IsObjectValue(spec)
    /\ "computed" \in spec.has
    /\ "from" \notin spec.has
    /\ "schema" \notin spec.has

isDirectMapping(spec) == spec.kind = "string" \/ spec.kind = "symbol"

\* -------------------------------------------------------------------------
\* Caller-supplied functions
\* -------------------------------------------------------------------------

NumericStrings == {"10.5", "15"}

\* A call's outcome: a returned value or a raised error.
Returned(v) == [threw |-> FALSE, val |-> v]

Raised(e) == [threw |-> TRUE, err |-> e]

\* A promise and the outcome it settles with, if it ever settles.
Promise(outcome) == [t |-> "promise", settles |-> outcome]

NeverSettles == [threw |-> FALSE, val |-> [t |-> "never"]]

\* IsNever taking every promise to settle.
IsNeverNever(outcome) == FALSE

IsNever(outcome) == ~outcome.threw /\ outcome.val.t = "never"

\* isPromise(value): value && typeof value.then === "function"
isPromise(value) == value.t = "promise"

\* mxs.number: numbers pass, Number(val) otherwise; null converts to 0.
mxsNumber(val) ==
    IF val.t = "number" THEN Returned(val)
    ELSE IF val = Null THEN Returned(Num("0"))
    ELSE IF val.t = "prim" /\ val.v \in NumericStrings THEN Returned(Num(val.v))
    ELSE Raised([t |-> "ValidationError", message |-> <<"Cannot convert to number">>])

\* spec.validate(val), for the validators a schema of the model may carry
Validate(tag, val) ==
    CASE tag = "number" -> mxsNumber(val)
      [] tag = "raise" -> Raised([t |-> "ValidationError", message |-> <<"always invalid">>])
      [] tag = "asyncNumber" -> Returned(Promise(mxsNumber(val)))
      [] tag = "asyncRaise" ->
            Returned(Promise(Raised([t |-> "ValidationError", message |-> <<"always invalid">>])))
      [] tag = "never" -> Returned(Promise(NeverSettles))
      [] OTHER -> Returned(val)

\* spec.transform(val, api)
Transform(tag, val, api) ==
    CASE tag = "wrap" -> Returned([t |-> "transformed", of |-> val])
      [] tag = "raise" -> Raised(Error("transform failed"))
      [] tag = "asyncWrap" -> Returned(Promise(Returned([t |-> "transformed", of |-> val])))
      [] OTHER -> Returned(val)

\* spec.computed(out, api): "keys" returns what it saw of the accumulator
Computed(tag, mapped, api) ==
    CASE tag = "keys" -> Returned([t |-> "computed", saw |-> DOMAIN mapped])
      [] tag = "undefined" -> Returned(Undef)
      [] tag = "raise" -> Raised(Error("computed failed"))
      [] tag = "asyncKeys" ->
            Returned(Promise(Returned([t |-> "computed", saw |-> DOMAIN mapped])))
      [] tag = "asyncRaise" -> Returned(Promise(Raised(Error("computed failed"))))
      [] OTHER -> Returned(Undef)

\* -------------------------------------------------------------------------
\* Path resolver
\* -------------------------------------------------------------------------

\* path.split("."): each segment is itself a one-segment key
Split(path) == IF path = <<>> THEN << <<>> >> ELSE [n \in 1..Len(path) |-> <<path[n]>>]

RECURSIVE DeepWalk(_, _, _)
DeepWalk(current, parts, n) ==
    IF n > Len(parts) THEN Returned(current)
    ELSE IF IsNullish(current) THEN Returned(Undef)
    ELSE IF current.t # "object" THEN Raised(TypeError("Cannot use 'in' operator"))
    ELSE IF parts[n] \notin DOMAIN current.f THEN Returned(Undef)
    ELSE DeepWalk(current.f[parts[n]], parts, n + 1)

getDeepValue(obj, path) == DeepWalk(obj, Split(path), 1)

\* api[spec]: one property read, no traversal
ReadProperty(api, name) ==
    IF IsNullish(api) THEN Raised(TypeError("Cannot read properties of null"))
    ELSE IF api.t = "object" /\ name \in DOMAIN api.f THEN Returned(api.f[name])
    ELSE Returned(Undef)

\* Object.keys(api): the own keys; a string primitive has its indices, and
\* null/undefined raise.
StringLength(s) == IF s = "10.5" THEN Len(<<"1", "0", ".", "5">>) ELSE Len(<<"1", "5">>)

ObjectKeys(api) ==
    IF IsNullish(api) THEN Raised(TypeError("Cannot convert undefined or null to object"))
    ELSE IF api.t = "object" THEN Returned(DOMAIN api.f)
    ELSE IF api.t = "prim" THEN Returned({<<ToString(n - 1)>> : n \in 1..StringLength(api.v)})
    ELSE Returned({})

\* -------------------------------------------------------------------------
\* Mapping engine: mapperx
\* -------------------------------------------------------------------------

\* What the engine did, in order: a function it invoked ("validate",
\* "transform", "computed") or the fate of a schema entry ("assigned",
\* "defaulted", "skipped", "failed").  depth is the nesting level of the call.
Event(ev, key, arg, acc, src) ==
    [ev |-> ev, key |-> key, depth |-> 0, arg |-> arg, acc |-> acc, src |-> src]

Deepen(events) == [n \in DOMAIN events |-> [events[n] EXCEPT !.depth = @ + 1]]

\* console.warn
Warning(warn, keys) == [warn |-> warn, keys |-> keys, depth |-> 0]

\* The outcome of the try block for one phase-1 entry.
FieldResult(r, val, cause, sourceField, sourceVal, events, warned) ==
    [r |-> r, val |-> val, cause |-> cause, sourceField |-> sourceField,
     sourceVal |-> sourceVal, events |-> events, warned |-> warned]

NoError == [t |-> "none", message |-> <<>>]

HasDefault(spec) == "default" \in spec.has /\ spec.default # Undef

\* WhenMissing taking every field for required.
WhenMissingAlwaysRequired(spec, sourceField, sourceVal, message) ==
    IF HasDefault(spec)
    THEN FieldResult("assign", spec.default, NoError, sourceField, sourceVal, <<>>, <<>>)
    ELSE FieldResult("throw", Undef, Error(message), sourceField, sourceVal, <<>>, <<>>)

\* WhenMissing never consulting the default.
WhenMissingNoDefault(spec, sourceField, sourceVal, message) ==
    IF spec.required # FALSE
    THEN FieldResult("throw", Undef, Error(message), sourceField, sourceVal, <<>>, <<>>)
    ELSE FieldResult("skip", Undef, NoError, sourceField, sourceVal, <<>>, <<>>)

\* WhenMissing putting the default through the validator and the transform.
WhenMissingValidatesDefault(spec, sourceField, sourceVal, message) ==
    IF HasDefault(spec)
    THEN LET v == Validate(spec.validate, spec.default)
             x == IF v.threw THEN v ELSE Transform(spec.transform, v.val, Undef)
         IN  IF x.threw
             THEN FieldResult("throw", Undef, x.err, sourceField, sourceVal, <<>>, <<>>)
             ELSE FieldResult("assign", x.val, NoError, sourceField, sourceVal, <<>>, <<>>)
    ELSE IF spec.required # FALSE
    THEN FieldResult("throw", Undef, Error(message), sourceField, sourceVal, <<>>, <<>>)
    ELSE FieldResult("skip", Undef, NoError, sourceField, sourceVal, <<>>, <<>>)

\* The source value is missing: the default if there is one, else an error
\* if the field is required, else nothing.
WhenMissing(spec, sourceField, sourceVal, message) ==
    IF HasDefault(spec)
    THEN FieldResult("assign", spec.default, NoError, sourceField, sourceVal, <<>>, <<>>)
    ELSE IF spec.required # FALSE
    THEN FieldResult("throw", Undef, Error(message), sourceField, sourceVal, <<>>, <<>>)
    ELSE FieldResult("skip", Undef, NoError, sourceField, sourceVal, <<>>, <<>>)

\* RejectsNull letting every null through.
RejectsNullNever(spec, val) == FALSE

\* RejectsNull consulting the default before it rejects.
RejectsNullUnlessDefault(spec, val) == val = Null /\ ~spec.nullable /\ ~HasDefault(spec)

\* sourceVal === null && !spec.nullable
RejectsNull(spec, val) == val = Null /\ ~spec.nullable

RECURSIVE mapperx(_, _, _)
RECURSIVE NestedCase(_, _, _)
RECURSIVE TryField(_, _, _, _)
RECURSIVE Phase1Entry(_, _, _, _)
RECURSIVE Phase1Step(_, _, _, _)

\* NestedMapped raising the cause of the inner error in its place.
NestedMappedFlattens(sub, sourceField, sourceVal) ==
    IF sub.status = "returned"
    THEN FieldResult("assign", Obj(sub.out), NoError, sourceField, sourceVal,
                     Deepen(sub.trace), Deepen(sub.warnings))
    ELSE FieldResult("throw", Undef,
                     IF IsMapperxError(sub.err) THEN sub.err.cause ELSE sub.err,
                     sourceField, sourceVal, Deepen(sub.trace), Deepen(sub.warnings))

\* out[key] = mapperx(sourceVal, spec.schema, options), or what it threw
NestedMapped(sub, sourceField, sourceVal) ==
    IF sub.status = "returned"
    THEN FieldResult("assign", Obj(sub.out), NoError, sourceField, sourceVal,
                     Deepen(sub.trace), Deepen(sub.warnings))
    ELSE FieldResult("throw", Undef, sub.err, sourceField, sourceVal,
                     Deepen(sub.trace), Deepen(sub.warnings))

\* NestedCase mapping the sub-object under the default options.
NestedCaseDefaultOptions(api, spec, options) ==
    LET sourceField == Str(spec.from)
        got == getDeepValue(api, spec.from)
    IN  IF got.threw
        THEN FieldResult("throw", Undef, got.err, sourceField, Undef, <<>>, <<>>)
        ELSE IF IsNullish(got.val)
        THEN WhenMissing(spec, sourceField, got.val,
                         "Required nested object is undefined or null")
        ELSE NestedMapped(mapperx(got.val, spec.schema,
                                  [strict |-> FALSE, skipInvalid |-> FALSE]),
                          sourceField, got.val)

\* CASO 1: nested schema
NestedCase(api, spec, options) ==
    LET sourceField == Str(spec.from)
        got == getDeepValue(api, spec.from)
    IN  IF got.threw
        THEN FieldResult("throw", Undef, got.err, sourceField, Undef, <<>>, <<>>)
        ELSE IF IsNullish(got.val)
        THEN WhenMissing(spec, sourceField, got.val,
                         "Required nested object is undefined or null")
        ELSE NestedMapped(mapperx(got.val, spec.schema, options), sourceField, got.val)

\* ObjectCase handing transform the value as it was before validation.
ObjectCaseTransformsRaw(api, key, spec) ==
    LET sourceField == Str(spec.from)
        got == getDeepValue(api, spec.from)
    IN  IF got.threw
        THEN FieldResult("throw", Undef, got.err, sourceField, Undef, <<>>, <<>>)
        ELSE IF got.val = Undef
        THEN WhenMissing(spec, sourceField, got.val, "Required field is undefined")
        ELSE IF RejectsNull(spec, got.val)
        THEN FieldResult("throw", Undef, Error("Field is null but not nullable"),
                         sourceField, got.val, <<>>, <<>>)
        ELSE LET doV == spec.validate # "none"
                 v == IF doV THEN Validate(spec.validate, got.val) ELSE Returned(got.val)
                 evV == IF doV THEN <<Event("validate", key, got.val, EmptyObj, Undef)>>
                        ELSE <<>>
             IN  IF v.threw
                 THEN FieldResult("throw", Undef, v.err, sourceField, got.val, evV, <<>>)
                 ELSE LET doT == spec.transform # "none"
                          x == IF doT THEN Transform(spec.transform, got.val, api)
                               ELSE Returned(v.val)
                          evT == IF doT
                                 THEN <<Event("transform", key, got.val, EmptyObj, api)>>
                                 ELSE <<>>
                      IN  IF x.threw
                          THEN FieldResult("throw", Undef, x.err, sourceField, got.val,
                                           evV \o evT, <<>>)
                          ELSE FieldResult("assign", x.val, NoError, sourceField, got.val,
                                           evV \o evT, <<>>)

\* CASO 2: field with validation / transformation
ObjectCase(api, key, spec) ==
    LET sourceField == Str(spec.from)
        got == getDeepValue(api, spec.from)
    IN  IF got.threw
        THEN FieldResult("throw", Undef, got.err, sourceField, Undef, <<>>, <<>>)
        ELSE IF got.val = Undef
        THEN WhenMissing(spec, sourceField, got.val, "Required field is undefined")
        ELSE IF RejectsNull(spec, got.val)
        THEN FieldResult("throw", Undef, Error("Field is null but not nullable"),
                         sourceField, got.val, <<>>, <<>>)
        ELSE LET doV == spec.validate # "none"
                 v == IF doV THEN Validate(spec.validate, got.val) ELSE Returned(got.val)
                 evV == IF doV THEN <<Event("validate", key, got.val, EmptyObj, Undef)>>
                        ELSE <<>>
             IN  IF v.threw
                 THEN FieldResult("throw", Undef, v.err, sourceField, got.val, evV, <<>>)
                 ELSE LET doT == spec.transform # "none"
                          x == IF doT THEN Transform(spec.transform, v.val, api)
                               ELSE Returned(v.val)
                          evT == IF doT
                                 THEN <<Event("transform", key, v.val, EmptyObj, api)>>
                                 ELSE <<>>
                      IN  IF x.threw
                          THEN FieldResult("throw", Undef, x.err, sourceField, got.val,
                                           evV \o evT, <<>>)
                          ELSE FieldResult("assign", x.val, NoError, sourceField, got.val,
                                           evV \o evT, <<>>)

\* DirectCase resolving the alias as a dotted path.
DirectCaseTraversing(api, spec) ==
    LET sourceField == Str(spec.from)
        got == getDeepValue(api, spec.from)
    IN  IF got.threw
        THEN FieldResult("throw", Undef, got.err, sourceField, Undef, <<>>, <<>>)
        ELSE IF got.val = Undef
        THEN FieldResult("throw", Undef, Error("Field is undefined in source"),
                         sourceField, got.val, <<>>, <<>>)
        ELSE FieldResult("assign", got.val, NoError, sourceField, got.val, <<>>, <<>>)

\* CASO 3: direct mapping
DirectCase(api, spec) ==
    LET sourceField == Str(spec.from)
        got == ReadProperty(api, spec.from)
    IN  IF got.threw
        THEN FieldResult("throw", Undef, got.err, sourceField, Undef, <<>>, <<>>)
        ELSE IF got.val = Undef
        THEN FieldResult("throw", Undef, Error("Field is undefined in source"),
                         sourceField, got.val, <<>>, <<>>)
        ELSE FieldResult("assign", got.val, NoError, sourceField, got.val, <<>>, <<>>)

\* new Error(`Invalid field specification for "${String(key)}". ...`)
InvalidSpecError(key) ==
    [t |-> "Error", message |-> <<"Invalid field specification for", key>>]

\* The try block of phase 1 for one non-computed entry.  An entry that fits
\* no case raises before sourceField is assigned.
TryField(api, key, spec, options) ==
    IF isNestedSpec(spec) THEN NestedCase(api, spec, options)
    ELSE IF isObjectSpec(spec) THEN ObjectCase(api, key, spec)
    ELSE IF isDirectMapping(spec) THEN DirectCase(api, spec)
    ELSE FieldResult("throw", Undef, InvalidSpecError(key),
                     Undef, Undef, <<>>, <<>>)

\* The state of one mapperx call.
CallState(out, computedFields, trace, warnings, status, err) ==
    [out |-> out, computedFields |-> computedFields, trace |-> trace,
     warnings |-> warnings, status |-> status, err |-> err]

NewCall == CallState(EmptyObj, <<>>, <<>>, <<>>, "running", NoError)

\* out[key] = val
Put(out, key, val) == (key :> val) @@ out

\* Catch continuing whatever options.skipInvalid says.
CatchSwallows(st, key, r, options) ==
    [st EXCEPT !.trace = Append(@, Event("failed", key, Undef, EmptyObj, Undef))]

\* Catch throwing whatever options.skipInvalid says.
CatchRethrows(st, key, r, options) ==
    [st EXCEPT !.trace = Append(@, Event("failed", key, Undef, EmptyObj, Undef)),
               !.status = "thrown",
               !.err = MapperxError(key, r.sourceField, r.cause, r.sourceVal)]

\* Catch letting the first failure of a call pass.
CatchForgivesOne(st, key, r, options) ==
    LET err == MapperxError(key, r.sourceField, r.cause, r.sourceVal)
        failed == [st EXCEPT !.trace = Append(@, Event("failed", key, Undef, EmptyObj, Undef))]
    IN  IF options.skipInvalid
           \/ \A q \in DOMAIN st.trace : ~(st.trace[q].depth = 0 /\ st.trace[q].ev = "failed")
        THEN failed
        ELSE [failed EXCEPT !.status = "thrown", !.err = err]

\* The catch block of phase 1.
Catch(st, key, r, options) ==
    LET err == MapperxError(key, r.sourceField, r.cause, r.sourceVal)
        failed == [st EXCEPT !.trace = Append(@, Event("failed", key, Undef, EmptyObj, Undef))]
    IN  IF options.skipInvalid
        THEN failed
        ELSE [failed EXCEPT !.status = "thrown", !.err = err]

\* What the try block's outcome does to the call: out[key] = value and
\* continue, continue, or the catch block.
Settle(st, key, r, options) ==
    LET seen == [st EXCEPT !.trace = @ \o r.events, !.warnings = @ \o r.warned]
    IN  CASE r.r = "assign" ->
               [seen EXCEPT !.out = Put(@, key, r.val),
                            !.trace = Append(@, Event("assigned", key, r.val, EmptyObj, Undef))]
          [] r.r = "skip" ->
               [seen EXCEPT !.trace = Append(@, Event("skipped", key, Undef, EmptyObj, Undef))]
          [] OTHER -> Catch(seen, key, r, options)

\* Phase1Entry raising the invalid-spec error outside the try block.
Phase1EntryInvalidEscapes(st, api, entry, options) ==
    Settle(st, entry.key, TryField(api, entry.key, entry.spec, options),
           IF isNestedSpec(entry.spec) \/ isObjectSpec(entry.spec)
              \/ isDirectMapping(entry.spec)
           THEN options
           ELSE [options EXCEPT !.skipInvalid = FALSE])

\* The try/catch of phase 1 for one non-computed entry.
Phase1Entry(st, api, entry, options) ==
    Settle(st, entry.key, TryField(api, entry.key, entry.spec, options), options)

\* the position at which schema declares key
IndexOf(schema, key) == CHOOSE n \in DOMAIN schema : schema[n].key = key

\* Phase2Commit going on after a raise whatever options.skipInvalid says.
Phase2CommitSwallows(st, key, spec, c, options) ==
    IF ~c.threw
    THEN [st EXCEPT !.out = Put(@, key, c.val),
                    !.trace = Append(@, Event("assigned", key, c.val, EmptyObj, Undef))]
    ELSE IF HasDefault(spec)
    THEN [st EXCEPT !.out = Put(@, key, spec.default),
                    !.trace = Append(@, Event("defaulted", key, spec.default, EmptyObj, Undef))]
    ELSE [st EXCEPT !.trace = Append(@, Event("failed", key, Undef, EmptyObj, Undef))]

\* What the outcome c of a computed function does to the call: out[key] =
\* result, or the catch block of phase 2.
Phase2Commit(st, key, spec, c, options) ==
    IF ~c.threw
    THEN [st EXCEPT !.out = Put(@, key, c.val),
                    !.trace = Append(@, Event("assigned", key, c.val, EmptyObj, Undef))]
    ELSE LET err == MapperxError(key, Null, c.err, Undef)
         IN  IF options.skipInvalid
             THEN IF HasDefault(spec)
                  THEN [st EXCEPT !.out = Put(@, key, spec.default),
                                  !.trace = Append(@, Event("defaulted", key, spec.default, EmptyObj, Undef))]
                  ELSE [st EXCEPT !.trace = Append(@, Event("failed", key, Undef, EmptyObj, Undef))]
             ELSE [st EXCEPT !.trace = Append(@, Event("failed", key, Undef, EmptyObj, Undef)),
                             !.status = "thrown", !.err = err]

\* Phase2Step handing each computed function the accumulator as phase 1 left
\* it, without the earlier computed results.
Phase2StepStale(st, api, schema, key, options) ==
    LET spec == schema[IndexOf(schema, key)].spec
        phase1Keys == {k \in DOMAIN st.out :
                         ~isComputedSpec(schema[IndexOf(schema, k)].spec)}
        stale == [k \in phase1Keys |-> st.out[k]]
    IN  Phase2Commit([st EXCEPT !.trace = Append(@, Event("computed", key, Undef, stale, api))],
                     key, spec, Computed(spec.computed, stale, api), options)

\* One iteration of the phase-2 loop.
Phase2Step(st, api, schema, key, options) ==
    LET spec == schema[IndexOf(schema, key)].spec
    IN  IF ~isComputedSpec(spec)
        THEN [st EXCEPT !.warnings = Append(@, Warning("invalid computed", {key}))]
        ELSE Phase2Commit([st EXCEPT !.trace = Append(@, Event("computed", key, Undef, st.out, api))],
                          key, spec, Computed(spec.computed, st.out, api), options)

\* Phase1Step evaluating a computed entry where it is declared.
Phase1StepInPlace(st, api, entry, options) ==
    IF isComputedSpec(entry.spec)
    THEN Phase2Step(st, api, <<entry>>, entry.key, options)
    ELSE Phase1Entry(st, api, entry, options)

\* One iteration of the phase-1 loop: a computed entry is kept for phase 2.
Phase1Step(st, api, entry, options) ==
    IF isComputedSpec(entry.spec)
    THEN [st EXCEPT !.computedFields = Append(@, entry.key)]
    ELSE Phase1Entry(st, api, entry, options)

\* SchemaFields keeping the whole path instead of its root.
SchemaFieldsWholePath(schema) ==
    {schema[n].spec.from :
        n \in {m \in DOMAIN schema : ~isComputedSpec(schema[m].spec)}}

\* The set schemaFields that phase 3 collects.
SchemaFields(schema) ==
    {Split(schema[n].spec.from)[1] :
        n \in {m \in DOMAIN schema : isObjectSpec(schema[m].spec) \/ isNestedSpec(schema[m].spec)}}
    \cup {schema[n].spec.from : n \in {m \in DOMAIN schema : isDirectMapping(schema[m].spec)}}

\* Phase3 raising on unreferenced keys instead of warning.
Phase3Raising(st, api, schema, options) ==
    IF ~options.strict THEN [st EXCEPT !.status = "returned"]
    ELSE LET keys == ObjectKeys(api)
         IN  IF keys.threw \/ keys.val \ SchemaFields(schema) # {}
             THEN [st EXCEPT !.status = "thrown",
                             !.err = MapperxError(<<"strict">>, Null, Error("extra fields"), Undef)]
             ELSE [st EXCEPT !.status = "returned"]

\* Phase 3 and the return.
Phase3(st, api, schema, options) ==
    IF ~options.strict THEN [st EXCEPT !.status = "returned"]
    ELSE LET keys == ObjectKeys(api)
         IN  IF keys.threw
             THEN [st EXCEPT !.status = "thrown", !.err = keys.err]
             ELSE LET extraFields == keys.val \ SchemaFields(schema)
                  IN  IF extraFields # {}
                      THEN [st EXCEPT !.status = "returned",
                                      !.warnings = Append(@, Warning("extra fields", extraFields))]
                      ELSE [st EXCEPT !.status = "returned"]

RECURSIVE Phase1Loop(_, _, _, _, _)
Phase1Loop(st, api, schema, options, n) ==
    IF n > Len(schema) \/ st.status # "running" THEN st
    ELSE Phase1Loop(Phase1Step(st, api, schema[n], options), api, schema, options, n + 1)

RECURSIVE Phase2Loop(_, _, _, _, _)
Phase2Loop(st, api, schema, options, n) ==
    IF n > Len(st.computedFields) \/ st.status # "running" THEN st
    ELSE Phase2Loop(Phase2Step(st, api, schema, st.computedFields[n], options),
                    api, schema, options, n + 1)

\* What follows the two loops: nothing if a throw left them, else phase 3.
AfterLoops(st, api, schema, options) ==
    IF st.status # "running" THEN st ELSE Phase3(st, api, schema, options)

\* A whole call: phase 1, phase 2, phase 3.
mapperx(api, schema, options) ==
    AfterLoops(Phase2Loop(Phase1Loop(NewCall, api, schema, options, 1),
                          api, schema, options, 1),
               api, schema, options)

\* -------------------------------------------------------------------------
\* Async engine: mapperxAsync
\* -------------------------------------------------------------------------

\* what a frame that is not suspended on a settled promise holds as pending
NotYet == [threw |-> FALSE, val |-> [t |-> "unsettled"]]

IsNotYet(outcome) == ~outcome.threw /\ outcome.val.t = "unsettled"

\* what a frame awaiting a nested call holds once that call has ended
Ended(sub) == [threw |-> FALSE, val |-> [t |-> "call", st |-> sub]]

\* One activation of mapperxAsync: its arguments, its locals (the call state
\* st, the positions n and m of the two loops) and where it stands: "loop"
\* when it runs, else the await it is suspended at ("nested", "validate",
\* "transform", "computed") with what the awaited promise settles with.
Frame(api, schema, st, n, m, at, pending) ==
    [api |-> api, schema |-> schema, st |-> st, n |-> n, m |-> m, at |-> at,
     pending |-> pending]

NewFrame(api, schema) == Frame(api, schema, NewCall, 1, 1, "loop", NotYet)

\* What running one entry comes to: the entry is over ("done"), the frame is
\* suspended at an await ("await"), or a nested mapperxAsync call was made
\* whose promise the frame awaits ("call").
Done(f) == [k |-> "done", f |-> f]

Call(f, sub) == [k |-> "call", f |-> [f EXCEPT !.at = "nested", !.pending = NotYet], sub |-> sub]

\* continue: the phase-1 loop goes to its next key
EndEntry(f, st) == [f EXCEPT !.st = st, !.n = @ + 1, !.at = "loop", !.pending = NotYet]

\* continue: the phase-2 loop goes to its next key
EndComputed(f, st) == [f EXCEPT !.st = st, !.m = @ + 1, !.at = "loop", !.pending = NotYet]

\* Await going on to the next entry without waiting for the promise.
AwaitForgotten(f, at, outcome) ==
    IF at = "computed"
    THEN Done(EndComputed(f, [f.st EXCEPT !.out = Put(@, f.st.computedFields[f.m],
                                                       Promise(outcome))]))
    ELSE Done(EndEntry(f, [f.st EXCEPT !.out = Put(@, f.schema[f.n].key, Promise(outcome))]))

\* the frame suspended at an await
Await(f, at, outcome) == [k |-> "await", f |-> [f EXCEPT !.at = at, !.pending = outcome]]

\* the frame with one more event in its trace
Logged(f, event) == [f EXCEPT !.st.trace = Append(@, event)]

\* sourceVal as the catch block of phase 1 sees it
SourceValOf(f) ==
    LET got == getDeepValue(f.api, f.schema[f.n].spec.from)
    IN  IF got.threw THEN Undef ELSE got.val

\* out[key] = val; continue
AsyncAssign(f, val, options) ==
    LET entry == f.schema[f.n]
    IN  Done(EndEntry(f, Settle(f.st, entry.key,
                                FieldResult("assign", val, NoError, Str(entry.spec.from),
                                            SourceValOf(f), <<>>, <<>>),
                                options)))

\* AsyncThrow rejecting whatever options.skipInvalid says.
AsyncThrowAlways(f, cause, options) ==
    LET entry == f.schema[f.n]
    IN  Done(EndEntry(f, CatchRethrows(f.st, entry.key,
                                       FieldResult("throw", Undef, cause, Str(entry.spec.from),
                                                   SourceValOf(f), <<>>, <<>>),
                                       options)))

\* the try block raised cause: the catch block of phase 1
AsyncThrow(f, cause, options) ==
    LET entry == f.schema[f.n]
    IN  Done(EndEntry(f, Settle(f.st, entry.key,
                                FieldResult("throw", Undef, cause, Str(entry.spec.from),
                                            SourceValOf(f), <<>>, <<>>),
                                options)))

\* if (spec.transform): call it, await its result if that is a promise
AsyncTransform(f, val, options) ==
    LET entry == f.schema[f.n]
    IN  IF entry.spec.transform = "none" THEN AsyncAssign(f, val, options)
        ELSE LET x == Transform(entry.spec.transform, val, f.api)
                 called == Logged(f, Event("transform", entry.key, val, EmptyObj, f.api))
             IN  IF x.threw THEN AsyncThrow(called, x.err, options)
                 ELSE IF isPromise(x.val) THEN Await(called, "transform", x.val.settles)
                 ELSE AsyncAssign(called, x.val, options)

\* if (spec.validate): call it, await its result if that is a promise
AsyncValidate(f, val, options) ==
    LET entry == f.schema[f.n]
    IN  IF entry.spec.validate = "none" THEN AsyncTransform(f, val, options)
        ELSE LET v == Validate(entry.spec.validate, val)
                 called == Logged(f, Event("validate", entry.key, val, EmptyObj, Undef))
             IN  IF v.threw THEN AsyncThrow(called, v.err, options)
                 ELSE IF isPromise(v.val) THEN Await(called, "validate", v.val.settles)
                 ELSE AsyncTransform(called, v.val, options)

\* CASO 1 of mapperxAsync: the recursive call is made and its promise awaited
AsyncNestedCase(f, options) ==
    LET entry == f.schema[f.n]
        got == getDeepValue(f.api, entry.spec.from)
    IN  IF got.threw THEN AsyncThrow(f, got.err, options)
        ELSE IF IsNullish(got.val)
        THEN Done(EndEntry(f, Settle(f.st, entry.key,
                                     WhenMissing(entry.spec, Str(entry.spec.from), got.val,
                                                 "Required nested object is undefined or null"),
                                     options)))
        ELSE Call(f, NewFrame(got.val, entry.spec.schema))

\* CASO 2 of mapperxAsync
AsyncObjectCase(f, options) ==
    LET entry == f.schema[f.n]
        got == getDeepValue(f.api, entry.spec.from)
    IN  IF got.threw THEN AsyncThrow(f, got.err, options)
        ELSE IF got.val = Undef
        THEN Done(EndEntry(f, Settle(f.st, entry.key,
                                     WhenMissing(entry.spec, Str(entry.spec.from), got.val,
                                                 "Required field is undefined"),
                                     options)))
        ELSE IF RejectsNull(entry.spec, got.val)
        THEN AsyncThrow(f, Error("Field is null but not nullable"), options)
        ELSE AsyncValidate(f, got.val, options)

\* The try/catch of phase 1 of mapperxAsync for one non-computed entry, up to
\* its first await.
AsyncField(f, options) ==
    LET entry == f.schema[f.n]
    IN  IF isNestedSpec(entry.spec) THEN AsyncNestedCase(f, options)
        ELSE IF isObjectSpec(entry.spec) THEN AsyncObjectCase(f, options)
        ELSE IF isDirectMapping(entry.spec)
        THEN Done(EndEntry(f, Settle(f.st, entry.key, DirectCase(f.api, entry.spec), options)))
        ELSE Done(EndEntry(f, Settle(f.st, entry.key,
                                     FieldResult("throw", Undef,
                                                 InvalidSpecError(entry.key),
                                                 Undef, Undef, <<>>, <<>>),
                                     options)))

\* One iteration of phase 2 of mapperxAsync, up to its await.
AsyncComputed(f, options) ==
    LET key == f.st.computedFields[f.m]
        spec == f.schema[IndexOf(f.schema, key)].spec
    IN  IF ~isComputedSpec(spec)
        THEN Done(EndComputed(f, [f.st EXCEPT !.warnings =
                                     Append(@, Warning("invalid computed", {key}))]))
        ELSE LET c == Computed(spec.computed, f.st.out, f.api)
                 called == Logged(f, Event("computed", key, Undef, f.st.out, f.api))
             IN  IF ~c.threw /\ isPromise(c.val)
                 THEN Await(called, "computed", c.val.settles)
                 ELSE Done(EndComputed(called, Phase2Commit(called.st, key, spec, c, options)))

\* The awaited promise has settled: the frame goes on from its await.
Resume(f, options) ==
    CASE f.at = "validate" ->
            IF f.pending.threw THEN AsyncThrow(f, f.pending.err, options)
            ELSE AsyncTransform(f, f.pending.val, options)
      [] f.at = "transform" ->
            IF f.pending.threw THEN AsyncThrow(f, f.pending.err, options)
            ELSE AsyncAssign(f, f.pending.val, options)
      [] f.at = "nested" ->
            Done(EndEntry(f, Settle(f.st, f.schema[f.n].key,
                                    NestedMapped(f.pending.val.st, Str(f.schema[f.n].spec.from),
                                                 SourceValOf(f)),
                                    options)))
      [] OTHER ->
            LET key == f.st.computedFields[f.m]
            IN  Done(EndComputed(f, Phase2Commit(f.st, key,
                                                 f.schema[IndexOf(f.schema, key)].spec,
                                                 f.pending, options)))

RECURSIVE Run(_, _)
RECURSIVE Proceed(_, _, _)

\* The stack of activations after one entry of its innermost one came to step.
Proceed(frames, step, options) ==
    LET below == SubSeq(frames, 1, Len(frames) - 1)
    IN  CASE step.k = "done" -> Run(Append(below, step.f), options)
          [] step.k = "await" -> Append(below, step.f)
          [] OTHER -> Run(below \o <<step.f, step.sub>>, options)

\* mapperxAsync running until it has to wait: the innermost activation goes
\* through its loops and phase 3; when it ends, its promise settles and the
\* activation awaiting it, if any, can resume later.
Run(frames, options) ==
    LET top == Len(frames)
        f == frames[top]
        below == SubSeq(frames, 1, top - 1)
    IN  IF f.at # "loop" THEN frames
        ELSE IF f.st.status # "running"
        THEN IF top = 1 THEN frames
             ELSE [below EXCEPT ![top - 1].pending = Ended(f.st)]
        ELSE IF f.n <= Len(f.schema)
        THEN IF isComputedSpec(f.schema[f.n].spec)
             THEN Run(Append(below, [f EXCEPT !.st.computedFields = Append(@, f.schema[f.n].key),
                                              !.n = @ + 1]),
                      options)
             ELSE Proceed(frames, AsyncField(f, options), options)
        ELSE IF f.m <= Len(f.st.computedFields)
        THEN Proceed(frames, AsyncComputed(f, options), options)
        ELSE Run(Append(below, [f EXCEPT !.st = Phase3(f.st, f.api, f.schema, options)]),
                 options)

\* the outermost call has returned or thrown: its promise is settled
Settled(frames) ==
    /\ Len(frames) = 1
    /\ frames[1].at = "loop"
    /\ frames[1].st.status # "running"

\* the innermost activation waits for a promise that settles
Resumable(frames) ==
    /\ frames # <<>>
    /\ LET f == frames[Len(frames)]
       IN  /\ f.at # "loop"
           /\ ~IsNotYet(f.pending)
           /\ ~IsNever(f.pending)

\* the task after the promise it waits for has settled
ResumeTask(frames, options) == Proceed(frames, Resume(frames[Len(frames)], options), options)

\* mapperxAsync(api, schema, options): the call runs up to its first await
mapperxAsync(api, schema, options) == Run(<<NewFrame(api, schema)>>, options)

\* -------------------------------------------------------------------------
\* Inputs
\* -------------------------------------------------------------------------

MaxEntries == 3

KeyNames == <<"k1", "k2", "k3", "k4", "k5">>

DestKey(n) == <<KeyNames[n]>>

DefaultValue == Prim("N/A")

\* The schema applied to the sub-object under "n".
InnerSchema ==
    <<Entry(<<"q">>, ComputedFieldSpec("keys", Undef)),
      Entry(<<"p">>, ObjectFieldSpec(<<"p">>, "number", "none", Undef, TRUE, FALSE))>>

FieldSpecs ==
    {DirectAlias(<<"a">>),
     ObjectFieldSpec(<<"a">>, "number", "none", Undef, TRUE, FALSE),
     ObjectFieldSpec(<<"a">>, "raise", "none", Undef, TRUE, FALSE),
     ObjectFieldSpec(<<"a">>, "raise", "none", DefaultValue, FALSE, FALSE),
     ObjectFieldSpec(<<"n", "p">>, "none", "wrap", Undef, FALSE, FALSE),
     NestedFieldSpec(<<"n">>, InnerSchema, Undef, TRUE),
     ComputedFieldSpec("keys", Undef),
     ComputedFieldSpec("raise", DefaultValue)}

\* Every schema of 1..max entries over specs; entry n has key DestKey(n).
SchemasOver(specs, max) ==
    UNION {{[n \in 1..len |-> Entry(DestKey(n), f[n])] : f \in [1..len -> specs]} :
           len \in 1..max}

\* what the source may hold under key k
SourceValuesOf(k) ==
    CASE k = <<"a">> -> {Prim("10.5"), Prim("UNVALIDID")}
      [] k = <<"n">> -> {Obj((<<"p">> :> Prim("15"))), Obj((<<"p">> :> Prim("UNVALIDID")))}
      [] OTHER -> {Prim("extra")}

\* Objects with the given optional keys, each absent or holding one of its values.
ObjectsOver(keys) ==
    {Obj(f) : f \in UNION {{g \in [present -> UNION {SourceValuesOf(k) : k \in keys}] :
                                \A k \in present : g[k] \in SourceValuesOf(k)} :
                            present \in SUBSET keys}}

Sources == ObjectsOver({<<"a">>, <<"n">>, <<"x">>})

Options == [strict : BOOLEAN, skipInvalid : BOOLEAN]

\* -------------------------------------------------------------------------
\* One mapperx call, entry by entry
\* -------------------------------------------------------------------------

\* the arguments shared by the entry points
VARIABLES schema, options

\* one mapperx call: its source, its position, its accumulator and what it did
VARIABLES api, pc, i, j, out, computedFields, trace, warnings, thrown

\* one mapperxBatch call: its items, the forEach position and its two lists
VARIABLES items, index, data, errors, batchPc

\* one mapperxBatchAsync call: the activations of each item's mapperxAsync
\* call, innermost last, and the items in the order their mappings settled
VARIABLES tasks, completion

\* one getDeepValue call: its path and what it returned or threw
VARIABLES path, found

\* successive mapperx calls on the same arguments: which call is under way
\* and how the one before it ended
VARIABLES calls, first

\* one call of the validator mxsAsync.withRetry returns: its arguments, what
\* the wrapped validator does at each invocation, the loop counter, lastError,
\* the timers it has slept on, the invocations made and how the call settled
VARIABLES maxRetries, delayMs, attempts, retryI, lastError, timers, invoked, retryPc,
          settled

argVars == <<schema, options>>

callVars == <<api, pc, i, j, out, computedFields, trace, warnings, thrown>>

batchVars == <<items, index, data, errors, batchPc>>

asyncVars == <<tasks, completion>>

pathVars == <<path, found>>

againVars == <<calls, first>>

retryVars == <<maxRetries, delayMs, attempts, retryI, lastError, timers, invoked, retryPc,
               settled>>

vars == <<argVars, callVars, batchVars, asyncVars, pathVars, againVars, retryVars>>

Current == CallState(out, computedFields, trace, warnings, pc, thrown)

Becomes(st) ==
    /\ out' = st.out
    /\ computedFields' = st.computedFields
    /\ trace' = st.trace
    /\ warnings' = st.warnings
    /\ pc' = st.status
    /\ thrown' = st.err

\* no call of that entry point is under way
CallIdle ==
    /\ api = Undef
    /\ pc = "idle"
    /\ i = 1
    /\ j = 1
    /\ out = EmptyObj
    /\ computedFields = <<>>
    /\ trace = <<>>
    /\ warnings = <<>>
    /\ thrown = NoError

BatchIdle ==
    /\ items = <<>>
    /\ index = 0
    /\ data = <<>>
    /\ errors = <<>>
    /\ batchPc = "idle"

AsyncIdle ==
    /\ tasks = <<>>
    /\ completion = <<>>

PathIdle ==
    /\ path = <<>>
    /\ found = Returned(Undef)

AgainIdle ==
    /\ calls = 1
    /\ first = NewCall

RetryIdle ==
    /\ maxRetries = 0
    /\ delayMs = 0
    /\ attempts = <<>>
    /\ retryI = 0
    /\ lastError = Null
    /\ timers = <<>>
    /\ invoked = 0
    /\ retryPc = "idle"
    /\ settled = Returned(Undef)

CallInit(sources, schemas) ==
    /\ api \in sources
    /\ schema \in schemas
    /\ options \in Options
    /\ BatchIdle
    /\ AsyncIdle
    /\ PathIdle
    /\ AgainIdle
    /\ RetryIdle
    /\ pc = "running"
    /\ i = 1
    /\ j = 1
    /\ out = EmptyObj
    /\ computedFields = <<>>
    /\ trace = <<>>
    /\ warnings = <<>>
    /\ thrown = NoError

Init == CallInit(Sources, SchemasOver(FieldSpecs, MaxEntries))

\* for (const key of Object.keys(schema)): one entry of phase 1
Phase1Field ==
    /\ pc = "running"
    /\ i <= Len(schema)
    /\ Becomes(Phase1Step(Current, api, schema[i], options))
    /\ i' = i + 1
    /\ UNCHANGED <<againVars, retryVars, pathVars, argVars, batchVars, asyncVars, api, j>>

\* for (const key of computedFields): one entry of phase 2
Phase2Field ==
    /\ pc = "running"
    /\ i > Len(schema)
    /\ j <= Len(computedFields)
    /\ Becomes(Phase2Step(Current, api, schema, computedFields[j], options))
    /\ j' = j + 1
    /\ UNCHANGED <<againVars, retryVars, pathVars, argVars, batchVars, asyncVars, api, i>>

\* phase 3 and return out
Return ==
    /\ pc = "running"
    /\ i > Len(schema)
    /\ j > Len(computedFields)
    /\ Becomes(Phase3(Current, api, schema, options))
    /\ UNCHANGED <<againVars, retryVars, pathVars, argVars, batchVars, asyncVars, api, i, j>>

Next == Phase1Field \/ Phase2Field \/ Return

Spec == Init /\ [][Next]_vars

\* -------------------------------------------------------------------------
\* Batch runner: mapperxBatch
\* -------------------------------------------------------------------------

MaxItems == 3

MaxBatchEntries == 2

BatchFieldSpecs ==
    {ObjectFieldSpec(<<"a">>, "number", "none", Undef, TRUE, FALSE),
     ObjectFieldSpec(<<"a">>, "none", "wrap", Undef, FALSE, FALSE),
     ComputedFieldSpec("keys", Undef)}

\* The elements of an array received at run time: objects, and null.
BatchItems ==
    {Obj((<<"a">> :> Prim("10.5"))), Obj((<<"a">> :> Prim("15")) @@ (<<"x">> :> Prim("extra"))),
     Obj((<<"a">> :> Prim("UNVALIDID"))), Null}

SeqsOver(S, max) == UNION {[1..len -> S] : len \in 0..max}

\* error instanceof Error ? error : new Error(String(error))
AsError(e) == e

\* BatchFile numbering an error by its place in the errors list.
BatchFileErrorCount(acc, item, idx, r) ==
    IF r.status = "returned"
    THEN [acc EXCEPT !.data = Append(@, Obj(r.out))]
    ELSE [acc EXCEPT !.errors =
             Append(@, [index |-> Len(acc.errors), item |-> item,
                        error |-> IF IsMapperxError(r.err) THEN r.err
                                  ELSE MapperxError(<<"unknown">>, Null, AsError(r.err), Undef)])]

\* BatchFile catching only a MapperxError.
BatchFileRethrows(acc, item, idx, r) ==
    IF r.status = "returned"
    THEN [acc EXCEPT !.data = Append(@, Obj(r.out))]
    ELSE IF IsMapperxError(r.err)
    THEN [acc EXCEPT !.errors = Append(@, [index |-> idx, item |-> item, error |-> r.err])]
    ELSE [acc EXCEPT !.status = "thrown"]

\* The try/catch of the forEach callback: data.push(mapped), or
\* errors.push of the MapperxError, wrapped as "unknown" if it is none.
BatchFile(acc, item, idx, r) ==
    IF r.status = "returned"
    THEN [acc EXCEPT !.data = Append(@, Obj(r.out))]
    ELSE IF IsMapperxError(r.err)
    THEN [acc EXCEPT !.errors = Append(@, [index |-> idx, item |-> item, error |-> r.err])]
    ELSE [acc EXCEPT !.errors =
             Append(@, [index |-> idx, item |-> item,
                        error |-> MapperxError(<<"unknown">>, Null, AsError(r.err), Undef)])]

\* The forEach callback: map one item and file the result or the error.
BatchStep(acc, item, idx, sch, opts) == BatchFile(acc, item, idx, mapperx(item, sch, opts))

BatchInit ==
    /\ items \in SeqsOver(BatchItems, MaxItems)
    /\ schema \in SchemasOver(BatchFieldSpecs, MaxBatchEntries)
    /\ options \in Options
    /\ CallIdle
    /\ AsyncIdle
    /\ PathIdle
    /\ AgainIdle
    /\ RetryIdle
    /\ index = 0
    /\ data = <<>>
    /\ errors = <<>>
    /\ batchPc = "running"

\* items.forEach((item, index) => ...): one item
BatchItem ==
    /\ batchPc = "running"
    /\ index < Len(items)
    /\ \E acc \in {BatchStep([data |-> data, errors |-> errors, status |-> batchPc],
                             items[index + 1], index, schema, options)} :
          /\ data' = acc.data
          /\ errors' = acc.errors
          /\ batchPc' = acc.status
    /\ index' = index + 1
    /\ UNCHANGED <<againVars, retryVars, pathVars, argVars, callVars, asyncVars, items>>

\* return { data, errors }
BatchReturn ==
    /\ batchPc = "running"
    /\ index = Len(items)
    /\ batchPc' = "returned"
    /\ UNCHANGED <<againVars, retryVars, pathVars, argVars, callVars, asyncVars, items, index, data, errors>>

BatchNext == BatchItem \/ BatchReturn

SpecBatch == BatchInit /\ [][BatchNext]_vars

\* -------------------------------------------------------------------------
\* Async batch runner: mapperxBatchAsync
\* -------------------------------------------------------------------------

AsyncInnerSchema ==
    <<Entry(<<"p">>, ObjectFieldSpec(<<"p">>, "asyncNumber", "none", Undef, TRUE, FALSE))>>

AsyncFieldSpecs ==
    {ObjectFieldSpec(<<"a">>, "asyncNumber", "none", Undef, TRUE, FALSE),
     ObjectFieldSpec(<<"a">>, "number", "asyncWrap", Undef, FALSE, FALSE),
     NestedFieldSpec(<<"n">>, AsyncInnerSchema, Undef, FALSE),
     ComputedFieldSpec("asyncKeys", Undef)}

AsyncItems ==
    {Obj((<<"a">> :> Prim("10.5")) @@ (<<"n">> :> Obj((<<"p">> :> Prim("15"))))),
     Obj((<<"a">> :> Prim("UNVALIDID")) @@ (<<"x">> :> Prim("extra"))),
     Obj((<<"a">> :> Prim("15")) @@ (<<"n">> :> Obj((<<"p">> :> Prim("UNVALIDID"))))),
     Null}

\* items.map(...) starting only the first item's mapping.
LaunchOneByOne(its, sch, opts) ==
    [n \in DOMAIN its |-> IF n = 1 THEN mapperxAsync(its[n], sch, opts) ELSE <<>>]

\* items.map((item, index) => mapperxAsync(item, schema, options)...): every
\* call is made, and runs up to its first await, before the array is built.
Launch(its, sch, opts) == [n \in DOMAIN its |-> mapperxAsync(its[n], sch, opts)]

\* What Promise.allSettled holds for a task: the value of its promise, or
\* the reason { index, error } that the catch handler threw.
SettledResult(frames, idx) ==
    IF ~Settled(frames) THEN [status |-> "pending"]
    ELSE IF frames[1].st.status = "returned"
    THEN [status |-> "fulfilled", value |-> Obj(frames[1].st.out)]
    ELSE [status |-> "rejected", reason |-> [index |-> idx, error |-> frames[1].st.err]]

\* The callback of results.forEach.
CollectOne(acc, result, idx, its) ==
    IF result.status = "fulfilled"
    THEN [acc EXCEPT !.data = Append(@, result.value)]
    ELSE LET reason == result.reason
         IN  IF "error" \in DOMAIN reason
             THEN [acc EXCEPT !.errors =
                      Append(@, [index |-> reason.index, item |-> its[reason.index + 1],
                                 error |-> IF IsMapperxError(reason.error) THEN reason.error
                                           ELSE MapperxError(<<"unknown">>, Null,
                                                             reason.error, Undef)])]
             ELSE [acc EXCEPT !.errors =
                      Append(@, [index |-> idx, item |-> its[idx + 1],
                                 error |-> IF IsMapperxError(reason) THEN reason
                                           ELSE MapperxError(<<"unknown">>, Null,
                                                             AsError(reason), Undef)])]

RECURSIVE Collect(_, _, _, _)
\* results.forEach((result, index) => ...), from place n on
Collect(acc, results, its, n) ==
    IF n > Len(results) THEN acc
    ELSE Collect(CollectOne(acc, results[n], n - 1, its), results, its, n + 1)

AsyncBatchInit ==
    /\ items \in SeqsOver(AsyncItems, MaxItems)
    /\ schema \in SchemasOver(AsyncFieldSpecs, MaxBatchEntries)
    /\ options \in Options
    /\ CallIdle
    /\ index = 0
    /\ data = <<>>
    /\ errors = <<>>
    /\ batchPc = "called"
    /\ AsyncIdle
    /\ PathIdle
    /\ AgainIdle
    /\ RetryIdle

\* the tasks among ns that are settled, in ascending order
RECURSIVE SettledAmong(_, _)
SettledAmong(tks, n) ==
    IF n > Len(tks) THEN <<>>
    ELSE (IF Settled(tks[n]) THEN <<n>> ELSE <<>>) \o SettledAmong(tks, n + 1)

\* items.map(...): every item's mapping is started
AsyncLaunch ==
    /\ batchPc = "called"
    /\ \E started \in {Launch(items, schema, options)} :
          /\ tasks' = started
          /\ completion' = SettledAmong(started, 1)
    /\ batchPc' = "waiting"
    /\ UNCHANGED <<againVars, retryVars, pathVars, argVars, callVars, items, index, data, errors >>

\* a promise that the mapping of item n waits for settles, and the mapping
\* runs on to its next await or to its end
AsyncResume(n) ==
    /\ batchPc = "waiting"
    /\ Resumable(tasks[n])
    /\ \E resumed \in {ResumeTask(tasks[n], options)} :
          /\ tasks' = [tasks EXCEPT ![n] = resumed]
          /\ completion' = IF Settled(resumed) THEN Append(completion, n) ELSE completion
    /\ UNCHANGED <<againVars, retryVars, pathVars, argVars, callVars, batchVars>>

\* Promise.allSettled resolves; results.forEach fills data and errors
AsyncResolve ==
    /\ batchPc = "waiting"
    /\ \A n \in DOMAIN tasks : Settled(tasks[n])
    /\ \E acc \in {Collect([data |-> <<>>, errors |-> <<>>],
                           [n \in DOMAIN tasks |-> SettledResult(tasks[n], n - 1)],
                           items, 1)} :
          /\ data' = acc.data
          /\ errors' = acc.errors
    /\ batchPc' = "resolved"
    /\ UNCHANGED <<againVars, retryVars, pathVars, argVars, callVars, asyncVars, items, index>>

AsyncBatchNext ==
    \/ AsyncLaunch
    \/ \E n \in DOMAIN tasks : AsyncResume(n)
    \/ AsyncResolve

SpecBatchAsync == AsyncBatchInit /\ [][AsyncBatchNext]_vars

\* -------------------------------------------------------------------------
\* One mapperxAsync call, await by await
\* -------------------------------------------------------------------------

AsyncCallSpecs ==
    {ObjectFieldSpec(<<"a">>, "asyncNumber", "none", Undef, TRUE, FALSE),
     ObjectFieldSpec(<<"a">>, "number", "asyncWrap", Undef, FALSE, FALSE),
     NestedFieldSpec(<<"n">>, AsyncInnerSchema, Undef, FALSE),
     ComputedFieldSpec("asyncKeys", Undef),
     ComputedFieldSpec("keys", Undef),
     ComputedFieldSpec("asyncRaise", DefaultValue)}

AsyncInit ==
    /\ api \in Sources
    /\ schema \in SchemasOver(AsyncCallSpecs, MaxEntries)
    /\ options \in Options
    /\ BatchIdle
    /\ AsyncIdle
    /\ PathIdle
    /\ AgainIdle
    /\ RetryIdle
    /\ pc = "called"
    /\ i = 1
    /\ j = 1
    /\ out = EmptyObj
    /\ computedFields = <<>>
    /\ trace = <<>>
    /\ warnings = <<>>
    /\ thrown = NoError

\* The call's activations become frames; the call variables show the locals
\* of the outermost one, and pc the state of the promise the call returned.
AsyncBecomes(frames) ==
    /\ tasks' = <<frames>>
    /\ out' = frames[1].st.out
    /\ computedFields' = frames[1].st.computedFields
    /\ trace' = frames[1].st.trace
    /\ warnings' = frames[1].st.warnings
    /\ thrown' = frames[1].st.err
    /\ i' = frames[1].n
    /\ j' = frames[1].m
    /\ pc' = IF Settled(frames) THEN frames[1].st.status ELSE "pending"

\* mapperxAsync(api, schema, options) is called and runs up to its first await
AsyncCall ==
    /\ pc = "called"
    /\ \E frames \in {mapperxAsync(api, schema, options)} : AsyncBecomes(frames)
    /\ UNCHANGED <<againVars, retryVars, pathVars, argVars, batchVars, api, completion>>

\* the promise the call waits for settles and the call runs on to its next
\* await or to its end
AsyncContinue ==
    /\ pc = "pending"
    /\ Resumable(tasks[1])
    /\ \E frames \in {ResumeTask(tasks[1], options)} : AsyncBecomes(frames)
    /\ UNCHANGED <<againVars, retryVars, pathVars, argVars, batchVars, api, completion>>

AsyncNext == AsyncCall \/ AsyncContinue

SpecAsync == AsyncInit /\ [][AsyncNext]_vars

\* -------------------------------------------------------------------------
\* One getDeepValue call
\* -------------------------------------------------------------------------

MaxPathLen == 3

\* what a property may hold at the end of a chain
Leaves == {Undef, Null, Prim("15"), Num("15")}

\* The values getDeepValue may be handed: a leaf, or an object that holds
\* under "a" a leaf or an object holding a leaf under "b".
PathSources ==
    Leaves
    \cup {Obj(EmptyObj)}
    \cup {Obj((<<"a">> :> v)) : v \in Leaves \cup {Obj((<<"b">> :> w)) : w \in Leaves}}

\* the dot-delimited paths of 1..max segments over "a" and "b"
PathsOver(max) == UNION {[1..len -> {"a", "b"}] : len \in 1..max}

PathInit ==
    /\ api \in PathSources
    /\ path \in PathsOver(MaxPathLen)
    /\ found = Returned(Undef)
    /\ AgainIdle
    /\ RetryIdle
    /\ schema = <<>>
    /\ options = [strict |-> FALSE, skipInvalid |-> FALSE]
    /\ BatchIdle
    /\ AsyncIdle
    /\ pc = "called"
    /\ i = 1
    /\ j = 1
    /\ out = EmptyObj
    /\ computedFields = <<>>
    /\ trace = <<>>
    /\ warnings = <<>>
    /\ thrown = NoError

\* getDeepValue(api, path) returns or throws
GetDeepValue ==
    /\ pc = "called"
    /\ found' = getDeepValue(api, path)
    /\ pc' = IF found'.threw THEN "thrown" ELSE "returned"
    /\ UNCHANGED <<againVars, retryVars, argVars, batchVars, asyncVars, path, api, i, j, out, computedFields,
                   trace, warnings, thrown>>

PathNext == GetDeepValue

SpecPath == PathInit /\ [][PathNext]_vars

\* -------------------------------------------------------------------------
\* One mapperx call over the missing-value, null, computed and alias rules
\* -------------------------------------------------------------------------

MaxRuleEntries == 2

RuleFieldSpecs ==
    {ObjectFieldSpec(<<"a">>, "number", "none", Undef, TRUE, FALSE),
     ObjectFieldSpec(<<"a">>, "number", "none", DefaultValue, TRUE, FALSE),
     ObjectFieldSpec(<<"a">>, "number", "none", Undef, FALSE, FALSE),
     ObjectFieldSpec(<<"a">>, "number", "wrap", Undef, TRUE, TRUE),
     ObjectFieldSpec(<<"a">>, "number", "wrap", DefaultValue, TRUE, FALSE),
     NestedFieldSpec(<<"n">>, InnerSchema, Undef, TRUE),
     NestedFieldSpec(<<"n">>, InnerSchema, DefaultValue, TRUE),
     NestedFieldSpec(<<"n">>, InnerSchema, Undef, FALSE),
     ComputedFieldSpec("keys", Undef),
     ComputedFieldSpec("raise", Undef),
     ComputedFieldSpec("raise", DefaultValue),
     ComputedFieldSpec("undefined", DefaultValue),
     DirectAlias(<<"a">>),
     DirectAlias(<<"n", "p">>)}

\* Sources whose "a" is absent, undefined, null or a numeric string, whose
\* "n" is absent, null or an object, and which may have the literal key "n.p".
RuleSources ==
    {Obj(fa @@ fn @@ fl) :
        fa \in {EmptyObj} \cup {(<<"a">> :> v) : v \in {Undef, Null, Prim("10.5")}},
        fn \in {EmptyObj} \cup {(<<"n">> :> v) : v \in {Null, Obj((<<"p">> :> Prim("15")))}},
        fl \in {EmptyObj, (<<"n", "p">> :> Prim("extra"))}}

RulesInit == CallInit(RuleSources, SchemasOver(RuleFieldSpecs, MaxRuleEntries))

SpecRules == RulesInit /\ [][Next]_vars

\* -------------------------------------------------------------------------
\* Two mapperx calls on the same arguments
\* -------------------------------------------------------------------------

\* EnterCall handing the accumulator of the activation before to the new one.
EnterCallKeeping(before) == [NewCall EXCEPT !.out = before.out]

\* The locals of an activation at function entry: const out = {} and
\* const computedFields = []; nothing of the activation before it is in scope.
EnterCall(before) == NewCall

\* mapperx(api, schema, options) is called a second time once the first call
\* has returned or thrown
CallAgain ==
    /\ pc \in {"returned", "thrown"}
    /\ calls = 1
    /\ calls' = 2
    /\ first' = Current
    /\ Becomes(EnterCall(Current))
    /\ i' = 1
    /\ j' = 1
    /\ UNCHANGED <<retryVars, pathVars, argVars, batchVars, asyncVars, api>>

TwiceNext == Phase1Field \/ Phase2Field \/ Return \/ CallAgain

SpecTwice == RulesInit /\ [][TwiceNext]_vars

\* -------------------------------------------------------------------------
\* One mapperx call over every shape of field spec
\* -------------------------------------------------------------------------

MaxShapeEntries == 2

\* the keys the guards look for
GuardKeys == {"from", "schema", "computed", "validate", "transform"}

\* An object spec holding exactly the keys of has: from is "n" when there is
\* a schema and "a" otherwise.
Shaped(has) ==
    FieldSpec("object", has,
              IF "from" \notin has THEN <<>>
              ELSE IF "schema" \in has THEN <<"n">> ELSE <<"a">>,
              IF "schema" \in has THEN InnerSchema ELSE <<>>,
              IF "validate" \in has THEN "number" ELSE "none",
              IF "transform" \in has THEN "wrap" ELSE "none",
              IF "computed" \in has THEN "keys" ELSE "none",
              Undef, TRUE, FALSE)

\* a spec that is neither a string, a symbol nor an object: null, a number
Unshaped(kind) ==
    FieldSpec(kind, {}, <<>>, <<>>, "none", "none", "none", Undef, TRUE, FALSE)

\* a symbol alias: no source holds the symbol
SymbolAlias(description) ==
    FieldSpec("symbol", {}, description, <<>>, "none", "none", "none", Undef, TRUE, FALSE)

\* Every object shape over the guard keys, the aliases "a", "" and Symbol(a),
\* an object spec reading "", computed specs that raise, without and with a
\* default, and the specs null and 42.
ShapeSpecs ==
    {Shaped(has) : has \in SUBSET GuardKeys}
    \cup {DirectAlias(<<"a">>), DirectAlias(<<>>), SymbolAlias(<<"Symbol(a)">>),
          ObjectFieldSpec(<<>>, "number", "none", Undef, TRUE, FALSE),
          ComputedFieldSpec("raise", Undef), ComputedFieldSpec("raise", DefaultValue),
          Unshaped("null"), Unshaped("number")}

ShapeSources ==
    {Obj(EmptyObj),
     Obj((<<"a">> :> Prim("10.5"))),
     Obj((<<"a">> :> Prim("UNVALIDID"))),
     Obj((<<"a">> :> Prim("10.5")) @@ (<<"n">> :> Obj((<<"p">> :> Prim("15"))))),
     Obj((<<"n">> :> Obj((<<"p">> :> Prim("UNVALIDID"))))),
     Obj((<<>> :> Prim("extra")))}

ShapesInit == CallInit(ShapeSources, SchemasOver(ShapeSpecs, MaxShapeEntries))

SpecShapes == ShapesInit /\ [][Next]_vars

\* -------------------------------------------------------------------------
\* mapperxBatchAsync with a validator that may never settle
\* -------------------------------------------------------------------------

MaxStallEntries == 1

MaxStallItems == 2

\* "a" through an async validator that settles, "a" through one that never
\* does, and an async computed field
StallFieldSpecs ==
    {ObjectFieldSpec(<<"a">>, "asyncNumber", "none", Undef, TRUE, FALSE),
     ObjectFieldSpec(<<"a">>, "never", "none", Undef, FALSE, FALSE),
     ComputedFieldSpec("asyncKeys", Undef)}

\* Items with a valid "a", with an invalid "a" and without "a".
StallItems ==
    {Obj((<<"a">> :> Prim("10.5"))),
     Obj((<<"a">> :> Prim("UNVALIDID"))),
     Obj((<<"x">> :> Prim("extra")))}

StallInit ==
    /\ items \in SeqsOver(StallItems, MaxStallItems)
    /\ schema \in SchemasOver(StallFieldSpecs, MaxStallEntries)
    /\ options \in Options
    /\ CallIdle
    /\ index = 0
    /\ data = <<>>
    /\ errors = <<>>
    /\ batchPc = "called"
    /\ AsyncIdle
    /\ PathIdle
    /\ AgainIdle
    /\ RetryIdle

\* The event loop: while the call can run or a settled promise has reactions
\* to run, one of them is run.
StallFairness == WF_vars(AsyncBatchNext)

SpecStall == StallInit /\ [][AsyncBatchNext]_vars /\ StallFairness

\* -------------------------------------------------------------------------
\* One call of a validator made by mxsAsync.withRetry
\* -------------------------------------------------------------------------

MaxAttempts == 3

\* what one invocation of the wrapped validator may come to: its promise
\* fulfils, rejects with one of two errors, or never settles
AttemptOutcomes ==
    {Returned(Num("15")), Raised(Error("first failure")), Raised(Error("other failure")),
     NeverSettles}

DelayChoices == {0, 1000}

\* i < maxRetries - 1 holding after every attempt.
NotLastAttemptAlways(n, max) == TRUE

\* i < maxRetries - 1
NotLastAttempt(n, max) == n < max - 1

\* new Error(`Validation failed after ${maxRetries} retries: ${lastError?.message}`)
RetriesError(max, last) ==
    [t |-> "Error",
     message |-> <<"Validation failed after", max, "retries",
                   IF last = Null THEN <<"undefined">> ELSE last.message>>]

RetryInit ==
    /\ maxRetries \in 0..MaxAttempts
    /\ delayMs \in DelayChoices
    /\ attempts \in [1..MaxAttempts -> AttemptOutcomes]
    /\ retryI = 0
    /\ lastError = Null
    /\ timers = <<>>
    /\ invoked = 0
    /\ retryPc = "loop"
    /\ settled = NotYet
    /\ schema = <<>>
    /\ options = [strict |-> FALSE, skipInvalid |-> FALSE]
    /\ CallIdle
    /\ BatchIdle
    /\ AsyncIdle
    /\ path = <<>>
    /\ found = Returned(Undef)
    /\ AgainIdle

\* One iteration of the for loop: return await validator(val), or the catch
\* block, which sets lastError and starts the timer unless this was the last
\* attempt.
RetryAttempt ==
    /\ retryPc = "loop"
    /\ retryI < maxRetries
    /\ invoked' = invoked + 1
    /\ LET outcome == attempts[invoked + 1]
       IN  IF IsNever(outcome)
           THEN /\ retryPc' = "awaiting"
                /\ UNCHANGED <<retryI, lastError, timers, settled>>
           ELSE IF ~outcome.threw
           THEN /\ retryPc' = "resolved"
                /\ settled' = outcome
                /\ UNCHANGED <<retryI, lastError, timers>>
           ELSE /\ lastError' = outcome.err
                /\ IF NotLastAttempt(retryI, maxRetries)
                   THEN /\ timers' = Append(timers, [ms |-> delayMs, after |-> invoked + 1])
                        /\ retryPc' = "sleeping"
                        /\ UNCHANGED retryI
                   ELSE /\ retryI' = retryI + 1
                        /\ UNCHANGED <<timers, retryPc>>
                /\ UNCHANGED settled
    /\ UNCHANGED <<maxRetries, delayMs, attempts>>
    /\ UNCHANGED <<argVars, callVars, batchVars, asyncVars, pathVars, againVars>>

\* the timer of setTimeout(resolve, delayMs) fires and the loop goes on
RetryWake ==
    /\ retryPc = "sleeping"
    /\ retryI' = retryI + 1
    /\ retryPc' = "loop"
    /\ UNCHANGED <<maxRetries, delayMs, attempts, lastError, timers, invoked, settled>>
    /\ UNCHANGED <<argVars, callVars, batchVars, asyncVars, pathVars, againVars>>

\* the loop is over: throw new Error(`Validation failed after ...`)
RetryGiveUp ==
    /\ retryPc = "loop"
    /\ retryI >= maxRetries
    /\ settled' = Raised(RetriesError(maxRetries, lastError))
    /\ retryPc' = "rejected"
    /\ UNCHANGED <<maxRetries, delayMs, attempts, retryI, lastError, timers, invoked>>
    /\ UNCHANGED <<argVars, callVars, batchVars, asyncVars, pathVars, againVars>>

RetryNext == RetryAttempt \/ RetryWake \/ RetryGiveUp

SpecRetry == RetryInit /\ [][RetryNext]_vars

\* -------------------------------------------------------------------------
\* One mapperx call over schemas nested two levels deep
\* -------------------------------------------------------------------------

MaxNestedEntries == 2

\* a schema whose only entry is itself a nested spec
MiddleSchema == <<Entry(<<"r">>, NestedFieldSpec(<<"n">>, InnerSchema, Undef, TRUE))>>

NestedLevelSpecs ==
    {NestedFieldSpec(<<"n">>, InnerSchema, Undef, TRUE),
     NestedFieldSpec(<<"m">>, MiddleSchema, Undef, TRUE),
     ObjectFieldSpec(<<"a">>, "number", "none", Undef, TRUE, FALSE),
     ComputedFieldSpec("keys", Undef)}

\* what a source may hold under "n": an object whose p is valid, invalid or
\* absent
InnerObjects ==
    {Obj((<<"p">> :> Prim("15"))), Obj((<<"p">> :> Prim("UNVALIDID"))), Obj(EmptyObj)}

\* Sources whose "a", "n" and "m" are each absent or present, "m" holding an
\* object whose "n" is absent, null or an inner object.
NestedSources ==
    {Obj(fa @@ fn @@ fm) :
        fa \in {EmptyObj, (<<"a">> :> Prim("10.5"))},
        fn \in {EmptyObj} \cup {(<<"n">> :> v) : v \in InnerObjects},
        fm \in {EmptyObj}
               \cup {(<<"m">> :> Obj(g)) :
                        g \in {EmptyObj, (<<"n">> :> Null)}
                              \cup {(<<"n">> :> v) : v \in InnerObjects}}}

NestedInit == CallInit(NestedSources, SchemasOver(NestedLevelSpecs, MaxNestedEntries))

SpecNested == NestedInit /\ [][Next]_vars

\* -------------------------------------------------------------------------
\* Properties of one mapperx call
\* -------------------------------------------------------------------------

\* The events of the call itself, not of its nested calls.
IsOwn(e) == e.depth = 0

Fates == {"assigned", "defaulted", "skipped", "failed"}

ComputedIndexes == {n \in DOMAIN schema : isComputedSpec(schema[n].spec)}

PlainIndexes == DOMAIN schema \ ComputedIndexes

\* the positions in trace at which a computed function of the schema is invoked
ComputedCalls == {p \in DOMAIN trace : IsOwn(trace[p]) /\ trace[p].ev = "computed"}

\* C1: no computed function is invoked until every non-computed entry of the
\* schema has been processed (assigned, skipped or failed), wherever the
\* computed entries are declared; the computed functions are invoked in
\* declaration order among themselves.
C1_ComputedDeferred ==
    /\ \A p \in ComputedCalls : \A n \in PlainIndexes :
          \E q \in 1..(p - 1) :
             /\ IsOwn(trace[q])
             /\ trace[q].key = schema[n].key
             /\ trace[q].ev \in Fates
    /\ \A p1, p2 \in ComputedCalls :
          p1 < p2 => IndexOf(schema, trace[p1].key) < IndexOf(schema, trace[p2].key)

\* A computed entry declared first, a non-computed entry after it, and two
\* computed functions invoked.
C1_Witness ==
    /\ Len(schema) = 3
    /\ isComputedSpec(schema[1].spec)
    /\ ~isComputedSpec(schema[2].spec)
    /\ isComputedSpec(schema[3].spec)
    /\ Cardinality(ComputedCalls) = 2

\* C2: the accumulator handed to the computed function of key k holds every
\* phase-1 field that was assigned and the result of every computed field
\* declared before k that succeeded, and no key of a computed field declared
\* after k.
C2_AccumulatorAtComputed ==
    \A p \in ComputedCalls :
       LET k == IndexOf(schema, trace[p].key)
           acc == trace[p].acc
       IN  /\ \A q \in DOMAIN trace :
                (/\ IsOwn(trace[q])
                 /\ trace[q].ev = "assigned"
                 /\ \/ IndexOf(schema, trace[q].key) \in PlainIndexes
                    \/ IndexOf(schema, trace[q].key) \in {n \in ComputedIndexes : n < k})
                => /\ trace[q].key \in DOMAIN acc
                   /\ acc[trace[q].key] = trace[q].arg
           /\ \A n \in ComputedIndexes : n > k => schema[n].key \notin DOMAIN acc

\* The last computed function saw a phase-1 field and an earlier computed result.
C2_Witness ==
    /\ Len(schema) = 3
    /\ PlainIndexes = {2}
    /\ \E p \in ComputedCalls :
          /\ trace[p].key = schema[3].key
          /\ DOMAIN trace[p].acc = {schema[1].key, schema[2].key}

CallEnded == pc # "running"

KeysOf(sch) == {sch[n].key : n \in DOMAIN sch}

\* entry n is an ObjectSpec whose validator always raises
AlwaysRaises(n) == isObjectSpec(schema[n].spec) /\ schema[n].spec.validate = "raise"

\* the source has a value (other than undefined) at the from of entry n
PresentAt(n) ==
    LET got == getDeepValue(api, schema[n].spec.from)
    IN  got.threw \/ got.val # Undef

\* the call itself recorded a failure for a key other than that of entry n
OtherFailed(n) ==
    \E q \in DOMAIN trace :
       IsOwn(trace[q]) /\ trace[q].ev = "failed" /\ trace[q].key # schema[n].key

\* the call threw a MapperxError naming entry n and its from
ThrewFor(n) ==
    /\ pc = "thrown"
    /\ IsMapperxError(thrown)
    /\ thrown.field = schema[n].key
    /\ thrown.sourceField = Str(schema[n].spec.from)

\* C3 as stated: whenever an ObjectSpec field's validator always raises (and
\* nothing else fails), mapperx with default options throws a MapperxError
\* with that key as field and that from as sourceField.
C3_Stated ==
    (CallEnded /\ ~options.skipInvalid /\ ~options.strict)
    => \A n \in DOMAIN schema : (AlwaysRaises(n) /\ ~OtherFailed(n)) => ThrewFor(n)

\* C3: when an ObjectSpec field's validator always raises, the source has a
\* value other than undefined at its from, and no other entry fails before
\* it, mapperx without skipInvalid throws a MapperxError with that key as
\* field and that from as sourceField.
C3_ThrowsWhenPresent ==
    (CallEnded /\ ~options.skipInvalid)
    => \A n \in DOMAIN schema :
          (AlwaysRaises(n) /\ PresentAt(n) /\ ~OtherFailed(n)) => ThrewFor(n)

\* The validator of the second entry raised after the first was assigned.
C3_Witness ==
    /\ Len(schema) >= 2
    /\ AlwaysRaises(2)
    /\ PresentAt(2)
    /\ ~options.skipInvalid
    /\ ThrewFor(2)
    /\ schema[1].key \in DOMAIN out
    /\ \E q \in DOMAIN trace : trace[q].ev = "validate" /\ trace[q].key = schema[2].key

\* every entry declared after entry n has met its fate
LaterProcessed(n) ==
    \A m \in DOMAIN schema :
       m > n => \E q \in DOMAIN trace :
                   IsOwn(trace[q]) /\ trace[q].key = schema[m].key /\ trace[q].ev \in Fates

\* C4: with skipInvalid, when an ObjectSpec field's validator always raises,
\* mapperx returns, the result lacks that key or holds its configured
\* default, and every later entry is still processed.
C4_SkipInvalidContinues ==
    (CallEnded /\ options.skipInvalid)
    => /\ pc = "returned"
       /\ \A n \in DOMAIN schema :
             AlwaysRaises(n)
             => /\ \/ schema[n].key \notin DOMAIN out
                   \/ /\ HasDefault(schema[n].spec)
                      /\ out[schema[n].key] = schema[n].spec.default
                /\ LaterProcessed(n)

\* The first entry's validator raised, the key is left out and the entries
\* after it were assigned.
C4_Witness ==
    /\ pc = "returned"
    /\ options.skipInvalid
    /\ Len(schema) = 3
    /\ AlwaysRaises(1)
    /\ \E q \in DOMAIN trace : trace[q].ev = "validate" /\ trace[q].key = schema[1].key
    /\ DOMAIN out = {schema[2].key, schema[3].key}

\* nothing failed, in the call or in a nested call
NothingFailed == \A q \in DOMAIN trace : trace[q].ev \notin {"failed", "defaulted"}

\* C5 as stated: when no field's processing fails, the returned object has
\* exactly the keys declared in the schema.
C5_Stated == (pc = "returned" /\ NothingFailed) => DOMAIN out = KeysOf(schema)

\* entry n is optional (required: false, no default) and the source has no
\* value for it
Omitted(n) ==
    LET spec == schema[n].spec
        got == getDeepValue(api, spec.from)
    IN  /\ isObjectSpec(spec) \/ isNestedSpec(spec)
        /\ spec.required = FALSE
        /\ ~HasDefault(spec)
        /\ ~got.threw
        /\ IF isNestedSpec(spec) THEN IsNullish(got.val) ELSE got.val = Undef

\* C5: when no field's processing fails, the returned object has no key
\* outside the schema, and has every key of the schema except those of
\* optional entries (required: false, no default) whose source value is
\* missing.
C5_KeysExceptOmitted ==
    (pc = "returned" /\ NothingFailed)
    => DOMAIN out = {schema[n].key : n \in {m \in DOMAIN schema : ~Omitted(m)}}

\* A call in which nothing failed returned three keys, one taken from a default.
C5_Witness ==
    /\ pc = "returned"
    /\ NothingFailed
    /\ Len(schema) = 3
    /\ DOMAIN out = KeysOf(schema)
    /\ \E k \in DOMAIN out : out[k] = DefaultValue
    /\ \E k \in DOMAIN out : out[k].t = "computed"

\* the same call with the other strict setting
OtherStrict == mapperx(api, schema, [options EXCEPT !.strict = ~@])

OwnDiagnostics ==
    {w \in DOMAIN warnings : warnings[w].depth = 0 /\ warnings[w].warn = "extra fields"}

\* the root source names the schema refers to
Referenced ==
    {<<schema[n].spec.from[1]>> :
        n \in {m \in DOMAIN schema : isObjectSpec(schema[m].spec) \/ isNestedSpec(schema[m].spec)}}
    \cup {schema[n].spec.from : n \in {m \in DOMAIN schema : isDirectMapping(schema[m].spec)}}

Unreferenced == DOMAIN api.f \ Referenced

\* C7: a strict call that reaches the strict check emits a diagnostic exactly
\* when the source has an own key outside the referenced set (the first
\* segment of every ObjectSpec/NestedSpec from and every alias; computed
\* entries add nothing), and the diagnostic lists exactly those keys.
C7_StrictDiagnostic ==
    (pc = "returned" /\ options.strict)
    => /\ (OwnDiagnostics # {}) <=> (Unreferenced # {})
       /\ \A w \in OwnDiagnostics : warnings[w].keys = Unreferenced
       /\ Cardinality(OwnDiagnostics) <= 1

\* The source has n, referred to through the path n.p, and the diagnostic
\* lists only the other keys.
C7_Witness ==
    /\ pc = "returned"
    /\ options.strict
    /\ \E n \in DOMAIN schema : isObjectSpec(schema[n].spec) /\ Len(schema[n].spec.from) = 2
    /\ \E n \in ComputedIndexes : TRUE
    /\ DOMAIN api.f = {<<"a">>, <<"n">>, <<"x">>}
    /\ \E w \in OwnDiagnostics : warnings[w].keys = {<<"a">>, <<"x">>}

\* -------------------------------------------------------------------------
\* Properties of mapperxBatch
\* -------------------------------------------------------------------------

\* what mapping the item at place n (from 1) of the input does on its own
Alone(n) == mapperx(items[n], schema, options)

Failing == {n \in DOMAIN items : Alone(n).status = "thrown"}

Succeeding == DOMAIN items \ Failing

\* the m-th smallest element of a set of numbers
Nth(S, m) == CHOOSE n \in S : Cardinality({k \in S : k < n}) = m - 1

\* C8: data and errors together account for every item: each failing item
\* appears once in errors, in input order, under its position in the input
\* and with the item itself, and data holds the results of the succeeding
\* items in input order.
C8_BatchAccounting ==
    batchPc = "returned"
    => /\ Len(data) + Len(errors) = Len(items)
       /\ Len(errors) = Cardinality(Failing)
       /\ \A e \in DOMAIN errors :
             /\ errors[e].index = Nth(Failing, e) - 1
             /\ errors[e].item = items[errors[e].index + 1]
       /\ \A e1, e2 \in DOMAIN errors : errors[e1].index = errors[e2].index => e1 = e2
       /\ Len(data) = Cardinality(Succeeding)
       /\ \A d \in DOMAIN data : data[d] = Obj(Alone(Nth(Succeeding, d)).out)

\* Three items of which the first and the last fail and the second succeeds.
C8_Witness ==
    /\ batchPc = "returned"
    /\ Len(items) = 3
    /\ Len(data) = 1
    /\ Len(errors) = 2
    /\ errors[1].index = 0
    /\ errors[2].index = 2
    /\ DOMAIN data[1].f # {}

\* C9: the batch never throws for an item's failure and goes on to the items
\* after it, with skipInvalid or without; every recorded error is a
\* MapperxError, the one the item's mapping threw or, when that was no
\* MapperxError, one with field "unknown" around it.
C9_BatchIsolation ==
    /\ batchPc # "thrown"
    /\ Len(data) + Len(errors) = index
    /\ batchPc = "returned" => index = Len(items)
    /\ \A e \in DOMAIN errors :
          LET alone == Alone(errors[e].index + 1)
          IN  /\ alone.status = "thrown"
              /\ IsMapperxError(errors[e].error)
              /\ IF IsMapperxError(alone.err)
                 THEN errors[e].error = alone.err
                 ELSE /\ errors[e].error.field = <<"unknown">>
                      /\ errors[e].error.sourceField = Null
                      /\ errors[e].error.cause = alone.err

\* Without skipInvalid the first item failed with a TypeError, which was
\* wrapped, and the two items after it were still mapped.
C9_Witness ==
    /\ batchPc = "returned"
    /\ ~options.skipInvalid
    /\ Len(items) = 3
    /\ Len(errors) = 1
    /\ errors[1].index = 0
    /\ errors[1].error.field = <<"unknown">>
    /\ errors[1].error.cause.t = "TypeError"
    /\ Len(data) = 2

\* -------------------------------------------------------------------------
\* Properties of mapperxBatchAsync
\* -------------------------------------------------------------------------

RECURSIVE Finish(_, _)
\* a mapperxAsync call resumed, with nothing else running, until it ends
Finish(frames, opts) ==
    IF Settled(frames) \/ ~Resumable(frames) THEN frames
    ELSE Finish(ResumeTask(frames, opts), opts)

\* what mapping the item at place n (from 1) of the input does on its own
AloneAsync(n) == Finish(mapperxAsync(items[n], schema, options), options)[1].st

AsyncFailing == {n \in DOMAIN items : AloneAsync(n).status = "thrown"}

AsyncSucceeding == DOMAIN items \ AsyncFailing

\* C10: once the batch waits, every item's mapping has been started; a
\* mapping that has not ended can always go on, whatever became of its
\* siblings; data and errors are filled only when every mapping has ended,
\* each as it ends on its own; and then, whatever the order in which the
\* mappings ended, data holds the successes in input order, each errors entry
\* the input index and the item of a failed mapping, and the two lengths add
\* up to the number of items.
C10_AsyncBatchJoinsAll ==
    /\ batchPc \in {"waiting", "resolved"}
       => /\ Len(tasks) = Len(items)
          /\ \A n \in DOMAIN tasks : tasks[n] # <<>>
    /\ batchPc = "waiting"
       => /\ \A n \in DOMAIN tasks : ~Settled(tasks[n]) => Resumable(tasks[n])
          /\ data = <<>>
          /\ errors = <<>>
    /\ batchPc = "resolved"
       => /\ \A n \in DOMAIN tasks : Settled(tasks[n]) /\ tasks[n][1].st = AloneAsync(n)
          /\ Len(data) + Len(errors) = Len(items)
          /\ Len(errors) = Cardinality(AsyncFailing)
          /\ \A e \in DOMAIN errors :
                /\ errors[e].index = Nth(AsyncFailing, e) - 1
                /\ errors[e].item = items[errors[e].index + 1]
                /\ IsMapperxError(errors[e].error)
          /\ \A d \in DOMAIN data : data[d] = Obj(AloneAsync(Nth(AsyncSucceeding, d)).out)

\* Three mappings that each had to wait ended last to first, the second by
\* rejecting before the first had ended; data holds the first and the third.
C10_Witness ==
    /\ batchPc = "resolved"
    /\ Len(items) = 3
    /\ completion = <<3, 2, 1>>
    /\ \A n \in DOMAIN tasks : tasks[n][1].st.trace # <<>>
    /\ Len(errors) = 1
    /\ errors[1].index = 1
    /\ Len(data) = 2
    /\ data[1] = Obj(AloneAsync(1).out)
    /\ data[2] = Obj(AloneAsync(3).out)
    /\ DOMAIN data[1].f # {}

\* -------------------------------------------------------------------------
\* Properties of one mapperxAsync call
\* -------------------------------------------------------------------------

\* the places in the trace of activation f with events of f itself
OwnEvents(f) == {q \in DOMAIN f.st.trace : IsOwn(f.st.trace[q])}

\* the place in f's schema of the entry that the event at q is about
EntryOf(f, q) == IndexOf(f.schema, f.st.trace[q].key)

\* the event at q is about a computed entry
OfComputed(f, q) == isComputedSpec(f.schema[EntryOf(f, q)].spec)

\* before place q of f's trace the entry with key k has met its fate
SettledBefore(f, k, q) ==
    \E p \in OwnEvents(f) :
       p < q /\ f.st.trace[p].key = k /\ f.st.trace[p].ev \in Fates

\* Activation f took its entries one after the other: an entry starts only
\* after every entry that started before it has met its fate, the phase-1
\* entries in declaration order, the computed entries after every phase-1
\* entry and in declaration order.
OneAtATime(f) ==
    /\ \A q1, q2 \in OwnEvents(f) :
          (q1 < q2 /\ f.st.trace[q1].key # f.st.trace[q2].key)
          => /\ SettledBefore(f, f.st.trace[q1].key, q2)
             /\ OfComputed(f, q1) = OfComputed(f, q2) => EntryOf(f, q1) < EntryOf(f, q2)
             /\ OfComputed(f, q1) => OfComputed(f, q2)
    /\ \A q \in OwnEvents(f) :
          OfComputed(f, q)
          => \A n \in DOMAIN f.schema :
                ~isComputedSpec(f.schema[n].spec) => SettledBefore(f, f.schema[n].key, q)

\* Activation f waits inside an entry: that entry has no fate yet, and
\* nothing of a later entry has happened.
NothingAhead(f) ==
    /\ f.at \in {"validate", "transform", "nested"}
       => \A q \in OwnEvents(f) :
             /\ ~OfComputed(f, q)
             /\ EntryOf(f, q) <= f.n
             /\ EntryOf(f, q) = f.n => f.st.trace[q].ev \notin Fates
    /\ f.at = "computed"
       => /\ f.n > Len(f.schema)
          /\ \A q \in OwnEvents(f) :
                OfComputed(f, q)
                => /\ EntryOf(f, q) <= IndexOf(f.schema, f.st.computedFields[f.m])
                   /\ f.st.trace[q].key = f.st.computedFields[f.m]
                      => f.st.trace[q].ev \notin Fates

\* C11: in every state of a mapperxAsync call, each of its activations (the
\* call and its nested sub-mappings) has taken its phase-1 entries in
\* declaration order with no overlap, has invoked no computed function before
\* every phase-1 entry met its fate, and each computed result settled before
\* the next computed function was invoked; while an activation waits, nothing
\* of a later entry has happened.
C11_AsyncOneAtATime ==
    pc # "called"
    => \A n \in DOMAIN tasks[1] : OneAtATime(tasks[1][n]) /\ NothingAhead(tasks[1][n])

\* A computed entry declared first that waits for its result, a nested
\* sub-mapping and a field that each wait for a validator: the call returned
\* and the computed function saw both.
C11_Witness ==
    /\ pc = "returned"
    /\ Len(schema) = 3
    /\ isComputedSpec(schema[1].spec)
    /\ schema[1].spec.computed = "asyncKeys"
    /\ isNestedSpec(schema[2].spec)
    /\ schema[3].spec.validate = "asyncNumber"
    /\ DOMAIN out = {DestKey(1), DestKey(2), DestKey(3)}
    /\ out[DestKey(1)].saw = {DestKey(2), DestKey(3)}

\* the synchronous function with the outcome that the promise of tag settles with
SyncTag(tag) ==
    CASE tag = "asyncNumber" -> "number"
      [] tag = "asyncRaise" -> "raise"
      [] tag = "asyncWrap" -> "wrap"
      [] tag = "asyncKeys" -> "keys"
      [] OTHER -> tag

RECURSIVE SyncSchema(_)
\* the schema with each function replaced by its synchronous counterpart
SyncSchema(sch) ==
    [n \in DOMAIN sch |->
        Entry(sch[n].key, [sch[n].spec EXCEPT !.validate = SyncTag(@),
                                              !.transform = SyncTag(@),
                                              !.computed = SyncTag(@),
                                              !.schema = SyncSchema(@)])]

\* what mapperx does with the same source and options and the synchronous schema
Mirror == mapperx(api, SyncSchema(schema), options)

\* C12: a mapperxAsync call whose functions are synchronous or return
\* promises settling with the same outcome ends as mapperx does: it resolves
\* to the object mapperx returns, or rejects with a MapperxError of the same
\* field and sourceField as the one mapperx throws.
C12_AsyncMirrorsSync ==
    pc \in {"returned", "thrown"}
    => /\ pc = Mirror.status
       /\ pc = "returned" => out = Mirror.out
       /\ pc = "thrown" => /\ IsMapperxError(thrown)
                           /\ IsMapperxError(Mirror.err)
                           /\ thrown.field = Mirror.err.field
                           /\ thrown.sourceField = Mirror.err.sourceField

\* The call assigned its first entry and rejected for its second, whose
\* validator's promise rejected; mapperx throws for the same entry.
C12_Witness ==
    /\ pc = "thrown"
    /\ Len(schema) >= 2
    /\ schema[2].spec.validate = "asyncNumber"
    /\ thrown.field = DestKey(2)
    /\ DestKey(1) \in DOMAIN out
    /\ Mirror.status = "thrown"
    /\ Mirror.err.field = DestKey(2)

\* -------------------------------------------------------------------------
\* Properties of getDeepValue
\* -------------------------------------------------------------------------

RECURSIVE Reach(_, _, _)
\* The value the chain of segments leads to: undefined as soon as the node
\* is null or undefined or lacks the segment, whatever else the node is.
Reach(node, parts, n) ==
    IF n > Len(parts) THEN node
    ELSE IF IsNullish(node) THEN Undef
    ELSE IF node.t # "object" THEN Undef
    ELSE IF <<parts[n]>> \notin DOMAIN node.f THEN Undef
    ELSE Reach(node.f[<<parts[n]>>], parts, n + 1)

\* the chain passes through a string or a number before the path ends
RECURSIVE ThroughPrimitive(_, _, _)
ThroughPrimitive(node, parts, n) ==
    /\ n <= Len(parts)
    /\ ~IsNullish(node)
    /\ \/ node.t # "object"
       \/ /\ <<parts[n]>> \in DOMAIN node.f
          /\ ThroughPrimitive(node.f[<<parts[n]>>], parts, n + 1)

\* C13 as stated: getDeepValue never throws, for any source value and any
\* path; it returns undefined as soon as the current node is null/undefined
\* or lacks the next segment, else the value at the end of the path.
C13_Stated ==
    pc # "called" => /\ ~found.threw
                     /\ found.val = Reach(api, path, 1)

\* C13: getDeepValue returns what the path leads to (undefined as soon as a
\* node is null/undefined or lacks the next segment) unless the chain reaches
\* a string or a number with segments left, and then it throws a TypeError.
C13_ThrowsThroughPrimitive ==
    pc # "called"
    => IF ThroughPrimitive(api, path, 1)
       THEN found.threw /\ found.err.t = "TypeError"
       ELSE ~found.threw /\ found.val = Reach(api, path, 1)

\* getDeepValue({a: "15"}, "a.b") threw.
C13_Witness ==
    /\ pc = "thrown"
    /\ api = Obj((<<"a">> :> Prim("15")))
    /\ path = <<"a", "b">>
    /\ found.threw

\* -------------------------------------------------------------------------
\* Properties of the field rules of mapperx
\* -------------------------------------------------------------------------

\* the fate that the call itself recorded for entry n, "none" before it has one
FateOf(n) ==
    LET at == {q \in DOMAIN trace :
                 IsOwn(trace[q]) /\ trace[q].key = schema[n].key /\ trace[q].ev \in Fates}
    IN  IF at = {} THEN "none" ELSE trace[CHOOSE q \in at : TRUE].ev

\* what the path resolver finds at the from of entry n
FoundAt(n) == getDeepValue(api, schema[n].spec.from)

\* entry n is an ObjectSpec whose value is absent, or a NestedSpec whose value
\* is absent or null
Missing(n) ==
    /\ ~FoundAt(n).threw
    /\ \/ isObjectSpec(schema[n].spec) /\ FoundAt(n).val = Undef
       \/ isNestedSpec(schema[n].spec) /\ IsNullish(FoundAt(n).val)

\* entry n failed: its key is unset, and without skipInvalid the call threw a
\* MapperxError for it with the given cause
FailedWith(n, cause) ==
    /\ FateOf(n) = "failed"
    /\ schema[n].key \notin DOMAIN out
    /\ ~options.skipInvalid
       => /\ pc = "thrown"
          /\ IsMapperxError(thrown)
          /\ thrown.field = schema[n].key
          /\ thrown.cause = cause

\* the message of the required-missing error of entry n
MissingMessage(n) ==
    IF isNestedSpec(schema[n].spec) THEN "Required nested object is undefined or null"
    ELSE "Required field is undefined"

\* C14: an entry whose source value is missing takes the default if one other
\* than undefined is given; else it fails with the required-missing error if
\* required is not false; else it is left unset and raises nothing.
C14_MissingValueRule ==
    \A n \in DOMAIN schema :
       (Missing(n) /\ FateOf(n) # "none")
       => IF HasDefault(schema[n].spec)
          THEN /\ FateOf(n) = "assigned"
               /\ schema[n].key \in DOMAIN out
               /\ out[schema[n].key] = schema[n].spec.default
          ELSE IF schema[n].spec.required # FALSE
          THEN FailedWith(n, Error(MissingMessage(n)))
          ELSE /\ FateOf(n) = "skipped"
               /\ schema[n].key \notin DOMAIN out
               /\ pc = "thrown" => thrown.field # schema[n].key

\* A nested entry took its default for a null source value and an optional
\* field with no value was left unset; the call returned.
C14_Witness ==
    /\ pc = "returned"
    /\ Len(schema) = 2
    /\ isNestedSpec(schema[1].spec)
    /\ FoundAt(1).val = Null
    /\ DOMAIN out = {DestKey(1)}
    /\ out[DestKey(1)] = DefaultValue
    /\ isObjectSpec(schema[2].spec)
    /\ Missing(2)
    /\ FateOf(2) = "skipped"

\* entry n is an ObjectSpec whose from resolves to null
NullAt(n) ==
    /\ isObjectSpec(schema[n].spec)
    /\ ~FoundAt(n).threw
    /\ FoundAt(n).val = Null

\* the own event ev of entry n, with the argument handed to the function
Invoked(n, ev, arg) ==
    \E q \in DOMAIN trace :
       /\ IsOwn(trace[q])
       /\ trace[q].key = schema[n].key
       /\ trace[q].ev = ev
       /\ trace[q].arg = arg

\* what validate, if any, makes of null for entry n
ValidatedNull(n) ==
    IF schema[n].spec.validate = "none" THEN Returned(Null)
    ELSE Validate(schema[n].spec.validate, Null)

\* what transform, if any, makes of the validated null for entry n
TransformedNull(n) ==
    IF schema[n].spec.transform = "none" THEN ValidatedNull(n)
    ELSE Transform(schema[n].spec.transform, ValidatedNull(n).val, api)

\* C15: an ObjectSpec whose from resolves to null fails with the "null but
\* not nullable" error unless nullable is true; with nullable true, null is
\* handed to validate and its result to transform, and the outcome is
\* assigned to the destination key.
C15_NullRule ==
    \A n \in DOMAIN schema :
       (NullAt(n) /\ FateOf(n) # "none")
       => IF ~schema[n].spec.nullable
          THEN /\ FailedWith(n, Error("Field is null but not nullable"))
               /\ ~Invoked(n, "validate", Null)
          ELSE /\ schema[n].spec.validate # "none" => Invoked(n, "validate", Null)
               /\ (schema[n].spec.transform # "none" /\ ~ValidatedNull(n).threw)
                  => Invoked(n, "transform", ValidatedNull(n).val)
               /\ (~ValidatedNull(n).threw /\ ~TransformedNull(n).threw)
                  => /\ FateOf(n) = "assigned"
                     /\ out[schema[n].key] = TransformedNull(n).val

\* A nullable field was handed null, which its validator turned into 0 and
\* its transform wrapped; a field that is not nullable then failed for null.
C15_Witness ==
    /\ pc = "thrown"
    /\ Len(schema) = 2
    /\ NullAt(1)
    /\ schema[1].spec.nullable
    /\ DOMAIN out = {DestKey(1)}
    /\ out[DestKey(1)] = [t |-> "transformed", of |-> Num("0")]
    /\ NullAt(2)
    /\ ~schema[2].spec.nullable
    /\ thrown.field = DestKey(2)
    /\ thrown.cause = Error("Field is null but not nullable")

\* entry n has a default, is not nullable, and its from resolves to null
NullWithDefault(n) ==
    /\ NullAt(n)
    /\ HasDefault(schema[n].spec)
    /\ ~schema[n].spec.nullable

\* C16 as stated: for an ObjectSpec with a defined default and nullable not
\* true whose from resolves to null, mapperx uses the default instead of
\* raising.
C16_Stated ==
    \A n \in DOMAIN schema :
       (NullWithDefault(n) /\ FateOf(n) # "none")
       => /\ FateOf(n) = "assigned"
          /\ schema[n].key \in DOMAIN out
          /\ out[schema[n].key] = schema[n].spec.default

\* C16: the default is not consulted for null: for an ObjectSpec with a
\* defined default and nullable not true whose from resolves to null, the
\* field fails with the "null but not nullable" error (the call throws a
\* MapperxError for it, or with skipInvalid leaves the key unset), and the
\* default is not assigned.
C16_NullFailsDespiteDefault ==
    \A n \in DOMAIN schema :
       (NullWithDefault(n) /\ FateOf(n) # "none")
       => /\ FailedWith(n, Error("Field is null but not nullable"))
          /\ ~options.skipInvalid => thrown.sourceValue = Null

\* With skipInvalid a field with a default whose value is null was left
\* unset, and the call returned.
C16_Witness ==
    /\ pc = "returned"
    /\ options.skipInvalid
    /\ \E n \in DOMAIN schema :
          /\ NullWithDefault(n)
          /\ FateOf(n) = "failed"
          /\ schema[n].key \notin DOMAIN out

\* the place in the trace at which the computed function of entry n was invoked
CallOf(n) ==
    {q \in DOMAIN trace :
        IsOwn(trace[q]) /\ trace[q].ev = "computed" /\ trace[q].key = schema[n].key}

\* what the computed function of entry n made of the accumulator it was handed
ResultOf(n) ==
    Computed(schema[n].spec.computed, trace[CHOOSE q \in CallOf(n) : TRUE].acc, api)

\* entry n is a computed spec with a default (mxc.withDefault) that phase 2
\* has dealt with
WithDefaultDone(n) ==
    /\ isComputedSpec(schema[n].spec)
    /\ HasDefault(schema[n].spec)
    /\ CallOf(n) # {}
    /\ FateOf(n) # "none"

\* C17 as stated: a computed field built with mxc.withDefault(fn, d) yields d
\* in the destination whenever fn throws or returns undefined, whatever the
\* options.
C17_Stated ==
    \A n \in DOMAIN schema :
       (WithDefaultDone(n) /\ (ResultOf(n).threw \/ ResultOf(n).val = Undef))
       => /\ schema[n].key \in DOMAIN out
          /\ out[schema[n].key] = schema[n].spec.default

\* C17: what the code does with mxc.withDefault(fn, d): d is assigned only
\* when fn throws and skipInvalid is set; when fn throws without skipInvalid
\* the call throws and the key stays unset; when fn returns undefined the key
\* holds undefined.
C17_DefaultOnlyOnSkippedThrow ==
    \A n \in DOMAIN schema :
       WithDefaultDone(n)
       => IF ResultOf(n).threw
          THEN IF options.skipInvalid
               THEN out[schema[n].key] = schema[n].spec.default
               ELSE pc = "thrown" /\ schema[n].key \notin DOMAIN out
          ELSE out[schema[n].key] = ResultOf(n).val

\* The function of a withDefault field returned undefined and the call
\* returned with undefined, not the default, under its key.
C17_Witness ==
    /\ pc = "returned"
    /\ \E n \in DOMAIN schema :
          /\ WithDefaultDone(n)
          /\ ~ResultOf(n).threw
          /\ ResultOf(n).val = Undef
          /\ out[schema[n].key] = Undef

\* entry n is a computed spec whose function raised when phase 2 invoked it
ComputedRaised(n) ==
    /\ isComputedSpec(schema[n].spec)
    /\ CallOf(n) # {}
    /\ FateOf(n) # "none"
    /\ ResultOf(n).threw

\* no computed function was invoked after that of entry n
NoneInvokedAfter(n) ==
    \A q \in ComputedCalls : \A p \in CallOf(n) : q <= p

\* every computed entry declared after entry n has been dealt with
ComputedAfterDone(n) ==
    \A m \in ComputedIndexes : m > n => CallOf(m) # {} /\ FateOf(m) # "none"

LiteralAt(n) ==
    IF api.t = "object" /\ schema[n].spec.from \in DOMAIN api.f
    THEN api.f[schema[n].spec.from]
    ELSE Undef

\* entry n is a direct alias that phase 1 has dealt with
AliasDone(n) == isDirectMapping(schema[n].spec) /\ FateOf(n) # "none"

NestedPresent(n) ==
    /\ isNestedSpec(schema[n].spec)
    /\ ~FoundAt(n).threw
    /\ ~IsNullish(FoundAt(n).val)

\* mapperx(X.a, N, options) for the nested entry n
Inner(n) == mapperx(FoundAt(n).val, schema[n].spec.schema, options)

\* C20: for a NestedSpec whose sub-object is present and not null, a call
\* that returns holds under the entry's key exactly what mapperx returns for
\* the sub-object, the nested schema and the same options, and a call whose
\* inner mapping throws has thrown once it ended.
C20_NestedRoundTrip ==
    \A n \in DOMAIN schema :
       NestedPresent(n)
       => /\ pc = "returned"
             => /\ Inner(n).status = "returned"
                /\ schema[n].key \in DOMAIN out
                /\ out[schema[n].key] = Obj(Inner(n).out)
          /\ (CallEnded /\ Inner(n).status = "thrown") => pc = "thrown"

\* With skipInvalid a nested entry whose sub-object holds an invalid p was
\* mapped: the inner mapping dropped p under the same options and the call
\* returned it.
C20_Witness ==
    /\ pc = "returned"
    /\ options.skipInvalid
    /\ Len(schema) = 1
    /\ NestedPresent(1)
    /\ DOMAIN out = {DestKey(1)}
    /\ out[DestKey(1)] = Obj(Inner(1).out)
    /\ <<"p">> \notin DOMAIN Inner(1).out
    /\ <<"q">> \in DOMAIN Inner(1).out

\* -------------------------------------------------------------------------
\* Properties of repeated mapperx calls
\* -------------------------------------------------------------------------

\* the second call has ended
SecondEnded == calls = 2 /\ pc \in {"returned", "thrown"}

\* the keys this call had assigned before the event at place q of its trace
AssignedBefore(q) ==
    {trace[p].key : p \in {r \in 1..(q - 1) :
                              IsOwn(trace[r]) /\ trace[r].ev \in {"assigned", "defaulted"}}}

\* C21: a second mapperx call on the same source, schema and options ends as
\* the first did (same destination or same error, same invocations with the
\* same arguments, same warnings), and every computed function of any call
\* is handed an accumulator holding only keys that this call assigned.
C21_Idempotent ==
    /\ SecondEnded => Current = first
    /\ \A q \in DOMAIN trace :
          (IsOwn(trace[q]) /\ trace[q].ev = "computed")
          => DOMAIN trace[q].acc \subseteq AssignedBefore(q)

\* The second call returned a non-empty destination equal to that of the
\* first, after a computed function had looked at its accumulator.
C21_Witness ==
    /\ SecondEnded
    /\ pc = "returned"
    /\ first.status = "returned"
    /\ out # EmptyObj
    /\ out = first.out
    /\ \E q \in DOMAIN trace : IsOwn(trace[q]) /\ trace[q].ev = "computed"
    /\ \E q \in DOMAIN trace : IsOwn(trace[q]) /\ trace[q].ev = "validate"

\* -------------------------------------------------------------------------
\* Properties of the classification of field specs
\* -------------------------------------------------------------------------

\* the guards a spec satisfies
Guards(spec) ==
    {g \in {"DirectAlias", "ComputedSpec", "NestedSpec", "ObjectSpec"} :
        \/ g = "DirectAlias" /\ isDirectMapping(spec)
        \/ g = "ComputedSpec" /\ isComputedSpec(spec)
        \/ g = "NestedSpec" /\ isNestedSpec(spec)
        \/ g = "ObjectSpec" /\ isObjectSpec(spec)}

\* the kind the classification rules give a spec, as an ordered decision over
\* its shape
RuleKind(spec) ==
    IF spec.kind \in {"string", "symbol"} THEN "DirectAlias"
    ELSE IF spec.kind # "object" THEN "invalid"
    ELSE IF "computed" \in spec.has /\ {"from", "schema"} \cap spec.has = {}
    THEN "ComputedSpec"
    ELSE IF {"from", "schema"} \subseteq spec.has
            /\ {"computed", "validate", "transform"} \cap spec.has = {}
    THEN "NestedSpec"
    ELSE IF "from" \in spec.has /\ {"schema", "computed"} \cap spec.has = {}
    THEN "ObjectSpec"
    ELSE "invalid"

\* the call took entry n for a computed field: it deferred it to phase 2
Deferred(n) == \E m \in DOMAIN computedFields : computedFields[m] = schema[n].key

\* C23: every shape of spec satisfies at most one guard, the one the
\* classification rules name; the call defers exactly the entries of the
\* computed kind; and an entry satisfying no guard fails with the
\* invalid-spec error that names its destination key, which no entry of a
\* kind fails with.
C23_ClassificationUnambiguous ==
    \A n \in DOMAIN schema :
       LET spec == schema[n].spec
           invalid == InvalidSpecError(schema[n].key)
       IN  /\ Cardinality(Guards(spec)) <= 1
           /\ Guards(spec) = {RuleKind(spec)} \ {"invalid"}
           /\ i > n => (Deferred(n) <=> RuleKind(spec) = "ComputedSpec")
           /\ FateOf(n) # "none"
              => IF Guards(spec) = {}
                 THEN FailedWith(n, invalid)
                 ELSE ~(pc = "thrown" /\ thrown.field = schema[n].key
                        /\ thrown.cause = invalid)

\* A spec holding both from and computed satisfied no guard and the call
\* threw the invalid-spec error for its key.
C23_Witness ==
    /\ pc = "thrown"
    /\ Len(schema) = 1
    /\ schema[1].spec.kind = "object"
    /\ schema[1].spec.has = {"from", "computed"}
    /\ Guards(schema[1].spec) = {}
    /\ FateOf(1) = "failed"
    /\ thrown.field = DestKey(1)
    /\ thrown.cause = InvalidSpecError(DestKey(1))

\* -------------------------------------------------------------------------
\* Properties of the errors mapperx throws
\* -------------------------------------------------------------------------

\* the message of a MapperxError shows from "<sourceField>"
ShowsFrom(e) ==
    /\ ~IsNullish(e.sourceField)
    /\ e.message[3] = <<"from", e.sourceField.v>>

\* the message of a MapperxError shows (computed)
ShowsComputed(e) == e.message[3] = <<"computed">>

\* the entries the thrown error is about
ThrownFor == {n \in DOMAIN schema : schema[n].key = thrown.field}

\* the call threw a MapperxError
ThrewMapperxError == pc = "thrown" /\ IsMapperxError(thrown)

\* C22 as stated: a MapperxError thrown for an alias, object or nested entry
\* carries the destination key as field and the from path or alias as
\* sourceField and its message shows from "<sourceField>"; sourceField is
\* none, or the message shows (computed), only for a computed entry.
C22_Stated ==
    ThrewMapperxError
    => /\ ThrownFor # {}
       /\ \A n \in ThrownFor :
             LET spec == schema[n].spec
             IN  /\ Guards(spec) \cap {"DirectAlias", "ObjectSpec", "NestedSpec"} # {}
                    => /\ thrown.sourceField = Str(spec.from)
                       /\ ShowsFrom(thrown)
                 /\ (IsNullish(thrown.sourceField) \/ ShowsComputed(thrown))
                    => isComputedSpec(spec)

\* C22: what the code does: the error carries the destination key as field;
\* sourceField is the from path or alias for an alias, object or nested
\* entry, null for a computed entry and undefined for an entry of no kind;
\* the message shows from "<sourceField>" when sourceField is a non-empty
\* string and (computed) otherwise, so an entry of no kind and an entry whose
\* source name is the empty string are reported as (computed).
C22_SourceIndicatorByTruthiness ==
    ThrewMapperxError
    => /\ ThrownFor # {}
       /\ \A n \in ThrownFor :
             LET spec == schema[n].spec
             IN  /\ thrown.sourceField =
                       (IF isComputedSpec(spec) THEN Null
                        ELSE IF Guards(spec) = {} THEN Undef
                        ELSE Str(spec.from))
                 /\ IF Guards(spec) \cap {"DirectAlias", "ObjectSpec", "NestedSpec"} # {}
                       /\ spec.from # <<>>
                    THEN ShowsFrom(thrown)
                    ELSE ShowsComputed(thrown)

\* The call threw for the spec 42: the error has no sourceField and its
\* message reports the entry as (computed).
C22_Witness ==
    /\ ThrewMapperxError
    /\ Len(schema) = 1
    /\ schema[1].spec.kind = "number"
    /\ thrown.field = DestKey(1)
    /\ thrown.sourceField = Undef
    /\ ShowsComputed(thrown)
    /\ thrown.cause = InvalidSpecError(DestKey(1))

\* -------------------------------------------------------------------------
\* Properties of mapperxBatchAsync under a validator that may never settle
\* -------------------------------------------------------------------------

\* the mapping of an item waits for a promise that never settles
Stalled(frames) ==
    /\ frames # <<>>
    /\ LET f == frames[Len(frames)]
       IN  /\ f.at # "loop"
           /\ ~f.pending.threw
           /\ f.pending.val.t = "never"

SomeStalled == \E n \in DOMAIN tasks : Stalled(tasks[n])

\* C24: a mapperxBatchAsync call whose every awaited promise settles
\* eventually resolves, and once the mapping of one item waits for a promise
\* that never settles the call never resolves, whatever the other items do.
C24_ResolvesIffAllSettle ==
    /\ <>(batchPc = "resolved" \/ SomeStalled)
    /\ [](SomeStalled => batchPc # "resolved")
    /\ [][SomeStalled => SomeStalled']_vars

\* Of two items the mapping of the first waits for a promise that never
\* settles while the second has settled, and the call still waits.
C24_Witness ==
    /\ batchPc = "waiting"
    /\ Len(tasks) = 2
    /\ Stalled(tasks[1])
    /\ Settled(tasks[2])
    /\ completion = <<2>>

\* -------------------------------------------------------------------------
\* Properties of the order of events within one mapperx call
\* -------------------------------------------------------------------------

\* the non-computed entries whose processing raised
FailedPlain == {n \in PlainIndexes : FateOf(n) = "failed"}

\* the events of this call that are about entry n
EventsOf(n) == {q \in DOMAIN trace : IsOwn(trace[q]) /\ trace[q].key = schema[n].key}

\* C25: without skipInvalid, as soon as the processing of a non-computed
\* entry raises the call throws the MapperxError of that entry, which is the
\* first failing one in declaration order: the entries before it met another
\* fate, nothing of a later entry was invoked, no computed function was
\* invoked, and the call does not return.
C25_FailFast ==
    (~options.skipInvalid /\ FailedPlain # {})
    => /\ pc = "thrown"
       /\ IsMapperxError(thrown)
       /\ \E n \in FailedPlain :
             /\ FailedPlain = {n}
             /\ thrown.field = schema[n].key
             /\ \A m \in PlainIndexes :
                   /\ m < n => FateOf(m) \in {"assigned", "defaulted", "skipped"}
                   /\ m > n => EventsOf(m) = {}
             /\ \A q \in EventsOf(n) : trace[q].ev = "failed" => q = Len(trace)
       /\ ComputedCalls = {}

\* The first entry raised on a null sub-object; the second, whose source
\* value is there to validate, was never looked at, and the call threw.
C25_Witness ==
    /\ pc = "thrown"
    /\ ~options.skipInvalid
    /\ Len(schema) = 2
    /\ isNestedSpec(schema[1].spec)
    /\ FailedPlain = {1}
    /\ isObjectSpec(schema[2].spec)
    /\ ~FoundAt(2).threw
    /\ FoundAt(2).val = Prim("10.5")
    /\ EventsOf(2) = {}
    /\ thrown.field = DestKey(1)

\* entry n is an ObjectSpec with both validate and transform whose source
\* value reached validation
BothRan(n) ==
    /\ isObjectSpec(schema[n].spec)
    /\ schema[n].spec.validate # "none"
    /\ schema[n].spec.transform # "none"
    /\ FateOf(n) # "none"
    /\ ~FoundAt(n).threw
    /\ FoundAt(n).val # Undef
    /\ ~RejectsNull(schema[n].spec, FoundAt(n).val)

\* the places in the trace at which function ev of entry n was invoked
Invocations(n, ev) == {q \in EventsOf(n) : trace[q].ev = ev}

\* what validate made of the source value of entry n
Validated(n) == Validate(schema[n].spec.validate, FoundAt(n).val)

\* what transform makes of validate's result for entry n
Transformed(n) == Transform(schema[n].spec.transform, Validated(n).val, api)

\* C26: for an ObjectSpec with validate and transform, validate is invoked
\* once on the resolved source value; if it raises, transform is never
\* invoked and the field fails with validate's error; otherwise transform is
\* invoked once, after validate, on validate's result with the source as
\* second argument, and the key receives what transform returns.
C26_ValidateThenTransform ==
    \A n \in DOMAIN schema :
       BothRan(n)
       => /\ Cardinality(Invocations(n, "validate")) = 1
          /\ \A q \in Invocations(n, "validate") : trace[q].arg = FoundAt(n).val
          /\ IF Validated(n).threw
             THEN /\ Invocations(n, "transform") = {}
                  /\ FailedWith(n, Validated(n).err)
             ELSE /\ Cardinality(Invocations(n, "transform")) = 1
                  /\ \A q \in Invocations(n, "transform") :
                        /\ \A p \in Invocations(n, "validate") : p < q
                        /\ trace[q].arg = Validated(n).val
                        /\ trace[q].src = api
                  /\ IF Transformed(n).threw
                     THEN FailedWith(n, Transformed(n).err)
                     ELSE /\ FateOf(n) = "assigned"
                          /\ out[schema[n].key] = Transformed(n).val

\* A numeric string was validated into a number, the number was transformed
\* and the key holds the transform's result.
C26_Witness ==
    /\ pc = "returned"
    /\ Len(schema) = 1
    /\ BothRan(1)
    /\ FoundAt(1).val = Prim("10.5")
    /\ Validated(1).val = Num("10.5")
    /\ Invocations(1, "transform") # {}
    /\ DOMAIN out = {DestKey(1)}
    /\ out[DestKey(1)] = Transformed(1).val
    /\ out[DestKey(1)] # Transform(schema[1].spec.transform, FoundAt(1).val, api).val

\* -------------------------------------------------------------------------
\* Properties of mxsAsync.withRetry
\* -------------------------------------------------------------------------

\* the invocations made so far that failed
FailedAttempts == {k \in 1..invoked : ~IsNever(attempts[k]) /\ attempts[k].threw}

\* the call has settled or waits for a promise that never settles
RetryOver == retryPc \in {"resolved", "rejected", "awaiting"}

\* C27: the validator is invoked at most maxRetries times; a call that
\* resolves does so with the value of the first attempt that did not fail,
\* which is the last invocation made; a timer of delayMs is started after
\* each failed attempt except the maxRetries-th; and the call rejects, with
\* the "failed after maxRetries retries" error carrying the last failure's
\* message, exactly when maxRetries attempts were made and all failed.
C27_RetryAtMostMaxTimes ==
    /\ invoked <= maxRetries
    /\ retryPc = "resolved"
       => /\ invoked >= 1
          /\ settled = attempts[invoked]
          /\ ~settled.threw
          /\ FailedAttempts = 1..(invoked - 1)
    /\ Len(timers) = Cardinality({k \in FailedAttempts : k < maxRetries})
    /\ \A k \in DOMAIN timers :
          /\ timers[k].ms = delayMs
          /\ timers[k].after \in FailedAttempts
          /\ timers[k].after < maxRetries
    /\ retryPc = "rejected"
       => /\ invoked = maxRetries
          /\ FailedAttempts = 1..maxRetries
          /\ settled = Raised(RetriesError(maxRetries,
                                           IF maxRetries = 0 THEN Null
                                           ELSE attempts[maxRetries].err))
    /\ (RetryOver /\ invoked = maxRetries /\ FailedAttempts = 1..maxRetries)
       => retryPc = "rejected"

\* Of three attempts allowed the first two failed and the third succeeded:
\* two timers were started and the call resolved with the third value.
C27_Witness ==
    /\ maxRetries = 3
    /\ retryPc = "resolved"
    /\ invoked = 3
    /\ FailedAttempts = {1, 2}
    /\ Len(timers) = 2
    /\ settled = Returned(Num("15"))

\* -------------------------------------------------------------------------
\* Properties of skipInvalid
\* -------------------------------------------------------------------------

\* the processing of entry n raised: in phase 1, or its computed function
Failed(n) ==
    \/ ~isComputedSpec(schema[n].spec) /\ FateOf(n) = "failed"
    \/ ComputedRaised(n)

DefaultUsed(n) ==
    /\ isObjectSpec(schema[n].spec)
    /\ HasDefault(schema[n].spec)
    /\ FoundAt(n) = Returned(Undef)
    /\ FateOf(n) # "none"

\* C29: when an ObjectSpec's default is used because the source value is
\* absent, neither validate nor transform is invoked for the entry and the
\* key holds the default as it was given.
C29_DefaultBypassesFunctions ==
    \A n \in DOMAIN schema :
       DefaultUsed(n)
       => /\ Invocations(n, "validate") = {}
          /\ Invocations(n, "transform") = {}
          /\ FateOf(n) = "assigned"
          /\ schema[n].key \in DOMAIN out
          /\ out[schema[n].key] = schema[n].spec.default

\* An entry with validate, transform and a default that the validator would
\* reject found no "a" in the source: the key holds the default and the call
\* returned.
C29_Witness ==
    /\ pc = "returned"
    /\ Len(schema) = 1
    /\ DefaultUsed(1)
    /\ schema[1].spec.validate = "number"
    /\ schema[1].spec.transform = "wrap"
    /\ Validate("number", schema[1].spec.default).threw
    /\ <<"a">> \notin DOMAIN api.f
    /\ trace = <<Event("assigned", DestKey(1), DefaultValue, EmptyObj, Undef)>>
    /\ out = (DestKey(1) :> DefaultValue)

\* the number of MapperxErrors wrapped one in the other, from e inwards
RECURSIVE Layers(_)
Layers(e) == IF IsMapperxError(e) THEN 1 + Layers(e.cause) ELSE 0

\* e names an entry of sch with that entry's from as sourceField, and a
\* MapperxError it has for cause does the same in that entry's nested schema
RECURSIVE NamesItsLevel(_, _)
NamesItsLevel(e, sch) ==
    /\ IsMapperxError(e)
    /\ \E n \in DOMAIN sch :
          /\ sch[n].key = e.field
          /\ ~isComputedSpec(sch[n].spec)
          /\ e.sourceField = Str(sch[n].spec.from)
          /\ IsMapperxError(e.cause)
             => /\ isNestedSpec(sch[n].spec)
                /\ NamesItsLevel(e.cause, sch[n].spec.schema)

\* the call threw for the nested entry n, whose sub-object is there
ThrewInside(n) ==
    /\ ~options.skipInvalid
    /\ pc = "thrown"
    /\ IsMapperxError(thrown)
    /\ thrown.field = schema[n].key
    /\ NestedPresent(n)

\* C30: without skipInvalid, when a field inside the sub-schema of a nested
\* entry fails, the error thrown has the entry's key as field and its from
\* as sourceField, its cause is the MapperxError that the inner call threw,
\* which names a field of the sub-schema, and there is one MapperxError per
\* level of nesting: one more than in what the inner call threw, each naming
\* an entry of the schema of its level.
C30_NestedErrorWrapsInner ==
    \A n \in DOMAIN schema :
       ThrewInside(n)
       => /\ Inner(n).status = "thrown"
          /\ thrown.sourceField = Str(schema[n].spec.from)
          /\ thrown.cause = Inner(n).err
          /\ IsMapperxError(thrown.cause)
          /\ thrown.cause.field \in KeysOf(schema[n].spec.schema)
          /\ Layers(thrown) = 1 + Layers(Inner(n).err)
          /\ NamesItsLevel(thrown, schema)

\* A validator failed two levels down: the error thrown names the outer key
\* and "m", its cause names "r" and "n", the cause of that names "p", and the
\* cause of that is the validator's error.
C30_Witness ==
    /\ Len(schema) = 1
    /\ ThrewInside(1)
    /\ schema[1].spec.from = <<"m">>
    /\ Layers(thrown) = 3
    /\ thrown.field = DestKey(1)
    /\ thrown.cause.field = <<"r">>
    /\ thrown.cause.sourceField = Str(<<"n">>)
    /\ thrown.cause.cause.field = <<"p">>
    /\ thrown.cause.cause.cause.t = "ValidationError"

====
